---- MODULE Spec2Model ----
(***************************************************************************)
(* A model of nutils/log.py: the active-log registry (Log.__enter__ and    *)
(* Log.__exit__), the lazily flushed context stack of the tree-style logs  *)
(* (ContextLog, ContextTreeLog), the multiplexing log (TeeLog) and the     *)
(* recording log (RecordLog) with its replay, the console logs (StdoutLog, *)
(* RichOutputLog), the output directory (_makedirs) and the file-backed    *)
(* logs (HtmlLog, IndentLog) with the files they write.                    *)
(* RecordLog.replay is also followed one loop iteration at a time, and     *)
(* the __enter__ of each class one whole call at a time, with the files,   *)
(* handles and exit callbacks it leaves behind.                            *)
(*                                                                         *)
(* Rendered output is modelled as the sequence of calls a tree-style log   *)
(* makes to its three abstract printers:                                   *)
(*   <<"push", title>>        _print_push_context(title)                   *)
(*   <<"pop">>                _print_pop_context()                         *)
(*   <<"item", level, text>>  _print_item(level, text)                     *)
(***************************************************************************)
EXTENDS Integers, Sequences, FiniteSets, TLC

\* ------------------------------------------------------------- bounds ----

\* The number of operations issued in one behaviour of the context-tree model.
MaxTreeOps == 7

\* The deepest nesting of contexts.
MaxDepth == 3

\* The number of operations issued in one behaviour of the recorder model.
MaxRecOps == 6

\* The number of iterations of the loop of RecordLog.replay that the stepwise
\* replay model follows.
MaxReplaySteps == 6

\* The number of operations issued in one behaviour of the activation model.
MaxActOps == 5

\* The number of operations issued in one behaviour of the TeeLog model.
MaxTeeOps == 4

\* The number of children of the TeeLog of the TeeLog model.
NChildren == 3

\* The number of operations issued in one behaviour of the registry model.
MaxRegOps == 6

\* The deepest nesting of with-blocks that activate a log.
MaxScopes == 3

\* The last tick of the clock of the console model.
MaxTime == 5

\* The deepest nesting of contexts on the console log.
MaxConDepth == 2

\* The number of opens issued in one behaviour of the directory model.
MaxDirOps == 4

\* The number of operations issued, ticks of the clock included, in one
\* behaviour of the model of the file-backed logs.
MaxFileOps == 4

\* ------------------------------------------------------------- inputs ----

\* LEVELS, highest priority first.
LEVELS == <<"error", "warning", "user", "info", "debug">>

\* The levels written in the model (a subset of LEVELS).
WriteLevels == {"error", "info"}

\* Context titles and message texts.
Titles == {"A", "B"}

Texts == {"x"}

\* parallel.procid: None in a process that never forked, 0 for the primary
\* rank, a positive number for a worker.
NoProcid == -1

Procids == {NoProcid, 0, 1}

\* Python's truth value of parallel.procid, as in `if parallel.procid:`.
Truthy(p) == p # NoProcid /\ p # 0

\* ------------------------------------------------------ sequence helpers --

\* seq[from:] of Python, with `from` a count of leading items to drop.
Slice(seq, from) == SubSeq(seq, from + 1, Len(seq))

\* seq without its last item (list.pop()).
Front(seq) == SubSeq(seq, 1, Len(seq) - 1)

RECURSIVE CountKind(_, _)
CountKind(events, kind) ==
  IF events = <<>> THEN 0
  ELSE (IF Head(events)[1] = kind THEN 1 ELSE 0) + CountKind(Tail(events), kind)

\* The titles of the contexts a rendered output leaves open: a push opens a
\* node, a pop closes the innermost open node.  <<"?">> marks an output that
\* closes a node it never opened.
RECURSIVE OpenTitles(_, _)
OpenTitles(events, open) ==
  IF events = <<>> THEN open
  ELSE LET e == Head(events) IN
       IF e[1] = "push" THEN OpenTitles(Tail(events), Append(open, e[2]))
       ELSE IF e[1] = "pop" THEN
              IF open = <<>> THEN <<"?">> ELSE OpenTitles(Tail(events), Front(open))
       ELSE OpenTitles(Tail(events), open)

\* ------------------------------------------- ContextLog / ContextTreeLog --

\* ContextTreeLog.__init__: no context, nothing printed.  `out` is the
\* rendered output so far, `handles` the number of file handles the log
\* holds open for callers of open, `files` the files written through them.
NewTreeLog ==
  [_context |-> <<>>, _printed_context |-> 0, out |-> <<>>,
   handles |-> 0, files |-> <<>>]

\* ContextLog._push_context: only appends the title.
ContextLog_push_context(s, title, mayskip) ==
  [s EXCEPT !._context = Append(@, title)]

\* The pop that renders a pop event also when the popped context was never
\* rendered (>= for >).
Mutant_pop_context_eager(s) ==
  LET popped == Front(s._context) IN
  IF s._printed_context >= Len(popped)
  THEN [s EXCEPT !._context = popped,
                 !._printed_context = @ - 1,
                 !.out = Append(@, <<"pop">>)]
  ELSE [s EXCEPT !._context = popped]

\* The pop that retracts the printed prefix without rendering the pop event.
Mutant_pop_context_silent(s) ==
  LET popped == Front(s._context) IN
  IF s._printed_context > Len(popped)
  THEN [s EXCEPT !._context = popped, !._printed_context = @ - 1]
  ELSE [s EXCEPT !._context = popped]

\* ContextTreeLog._pop_context: pop the title; when the printed prefix
\* reaches past the new top, retract it by one and render a pop event.
ContextTreeLog_pop_context(s) ==
  LET popped == Front(s._context) IN
  IF s._printed_context > Len(popped)
  THEN [s EXCEPT !._context = popped,
                 !._printed_context = @ - 1,
                 !.out = Append(@, <<"pop">>)]
  ELSE [s EXCEPT !._context = popped]

\* The push events of the write loop: one per title, in stack order.
PushEvents(titles) == [i \in 1..Len(titles) |-> <<"push", titles[i]>>]

\* The write that renders only the innermost pending context.
Mutant_write_top_only(s, level, text, procid) ==
  IF Truthy(procid) THEN s
  ELSE LET pending == Slice(s._context, s._printed_context)
           top == IF pending = <<>> THEN <<>> ELSE <<pending[Len(pending)]>> IN
       [s EXCEPT !.out = @ \o PushEvents(top) \o <<<<"item", level, text>>>>,
                 !._printed_context = @ + Len(pending)]

\* ContextTreeLog.write: nothing on a worker rank; otherwise a push event for
\* every title of _context[_printed_context:], advancing the printed prefix
\* by one each, then the item.
ContextTreeLog_write(s, level, text, procid) ==
  IF Truthy(procid) THEN s
  ELSE LET pending == Slice(s._context, s._printed_context) IN
       [s EXCEPT !.out = @ \o PushEvents(pending) \o <<<<"item", level, text>>>>,
                 !._printed_context = @ + Len(pending)]

\* The text HtmlLog.open reports for a file: a link to it.
Link(filename) == "<a href=" \o filename \o ">"

\* HtmlLog.open up to its yield: the file is opened in the log's directory.
HtmlLog_open_acquire(s, filename, mode, exists) ==
  [s EXCEPT !.handles = @ + 1]

\* HtmlLog.open after its yield: the with-statement closes the file; when no
\* exception came out of the caller's block the file is reported with write.
HtmlLog_open_release(s, filename, mode, level, exists, data, etype, procid) ==
  LET closed == [s EXCEPT !.handles = @ - 1,
                          !.files = Append(@, <<filename, mode, exists, data>>)] IN
  IF etype = "none"
  THEN ContextTreeLog_write(closed, level, Link(filename), procid)
  ELSE closed

\* IndentLog.open after its yield: the with-statement closes the file; when
\* no exception came out of the caller's block the file is reported with
\* _print_item.
IndentLog_open_release(s, filename, mode, level, exists, data, etype, procid) ==
  LET closed == [s EXCEPT !.handles = @ - 1,
                          !.files = Append(@, <<filename, mode, exists, data>>)] IN
  IF etype = "none"
  THEN [closed EXCEPT !.out = Append(@, <<"item", level, Link(filename)>>)]
  ELSE closed

\* ----------------------------------------------------------- variables ----

VARIABLES
  procid,     \* parallel.procid of this process
  log,        \* the tree-style log of the context-tree model
  hasWrite,   \* per open context of `log`: was write called inside it
  treeLast,   \* the last operation on `log` and the log as it was before it
  treeOps     \* the number of operations issued on `log`

treeVars == <<procid, log, hasWrite, treeLast, treeOps>>

VARIABLES
  _current_log,  \* the module's reference to the active log
  _old_log,      \* per log: its _old_log attribute, Unset when it has none
  exit_stack,    \* per log: the callbacks of its ExitStack (logs to exit)
  writes,        \* per plain log: the write calls it received
  exc,           \* the exception propagating in the caller, or "none"
  scopes,        \* the caller's open with-blocks, outermost first
  regLast,       \* the last registry operation and the state before it;
                 \* `olds` is _old_log before the last enter or exit,
                 \* its `writes` are the write calls received before the
                 \* operation, `atRaise` those received when the propagating
                 \* exception was raised
  regOps         \* the number of registry operations issued

regVars == <<_current_log, _old_log, exit_stack, writes, exc, scopes, regLast, regOps>>

VARIABLES
  rec,        \* the RecordLog: _messages, _contexts, _appended_contexts
  old,        \* the log the RecordLog wraps (its _old_log), a tree-style log
  oldCalls,   \* the calls `old` received, with their arguments
  issued,     \* the calls the caller made on the RecordLog
  direct,     \* a fresh tree-style log given the caller's calls directly
  replayed,   \* the fresh tree-style log of the last replay(), after it
  recLast,    \* the last operation on the RecordLog and what it raised
  recOps      \* the number of operations issued on the RecordLog

recVars == <<rec, old, oldCalls, issued, direct, replayed, recLast, recOps>>

VARIABLES
  children,   \* the logs of the TeeLog (TeeLog.logs), tree-style logs
  childCalls, \* per child: the calls it received, with their arguments
  teeStacks,  \* the ExitStacks of the TeeLog contexts that are open
  teeIssued,  \* the calls the caller made on the TeeLog
  teeLast,    \* the last operation on the TeeLog and the children before it
  teeOps      \* the number of operations issued on the TeeLog

teeVars == <<children, childCalls, teeStacks, teeIssued, teeLast, teeOps>>

VARIABLES
  console,       \* the console log: a StdoutLog or a RichOutputLog
  verbose,       \* config.verbose
  now,           \* time.time(), in ticks
  repaintedAt,   \* the time the progress line was last printed, -1 for never
  writtenSince,  \* was a message line printed after that
  conLast        \* the last console operation, what it printed, the state
                 \* before it

conVars == <<console, verbose, now, repaintedAt, writtenSince, conLast>>

VARIABLES
  dir,        \* the output directory: the contents of each file in it
  dirLast,    \* the last open in the directory, the handle it returned, the
              \* directory before it
  dirOps      \* the number of opens issued

dirVars == <<dir, dirLast, dirOps>>

VARIABLES
  flog,       \* the file-backed log: an HtmlLog or an IndentLog, with the
              \* files it writes
  clock,      \* time.time() as the file-backed log reads it, in ticks
  fileLast,   \* the last operation on the file-backed log and the log
              \* before it
  fileOps     \* the number of operations issued on the file-backed log

fileVars == <<flog, clock, fileLast, fileOps>>

VARIABLES
  rp          \* a call of RecordLog.replay in progress: the active log it
              \* issues to, its position in _messages, the context managers
              \* it holds, and the messages and operation count since the call

rpVars == <<rp>>

VARIABLES
  act,        \* a log object of one of the classes, with the files of its
              \* output directory and its stream
  actCurrent, \* the module's _current_log: "default" or "self" (act)
  actLast,    \* the last operation on act, what it raised, and act and
              \* _current_log before it
  actOps      \* the number of operations issued on act

actVars == <<act, actCurrent, actLast, actOps>>

lateVars == <<rpVars, actVars>>

sinkVars == <<conVars, dirVars, fileVars, lateVars>>

vars == <<treeVars, regVars, recVars, teeVars, sinkVars>>

\* ------------------------------------------------ the context-tree model --

TreeStart ==
  /\ log = NewTreeLog
  /\ hasWrite = <<>>
  /\ treeLast = [op |-> "init", before |-> NewTreeLog, clean |-> FALSE]
  /\ treeOps = 0

\* with log.context(title, mayskip): on entry.
TreePush(title, mayskip) ==
  /\ treeOps < MaxTreeOps
  /\ Len(log._context) < MaxDepth
  /\ log' = ContextLog_push_context(log, title, mayskip)
  /\ hasWrite' = Append(hasWrite, FALSE)
  /\ treeLast' = [op |-> "push", before |-> log, clean |-> FALSE]
  /\ treeOps' = treeOps + 1
  /\ UNCHANGED <<procid, regVars, recVars, teeVars, sinkVars>>

\* with log.context(...): on exit (the finally clause of ContextLog.context).
TreePop ==
  /\ treeOps < MaxTreeOps
  /\ Len(log._context) > 0
  /\ log' = ContextTreeLog_pop_context(log)
  /\ hasWrite' = Front(hasWrite)
  /\ treeLast' = [op |-> "pop", before |-> log,
                  clean |-> ~hasWrite[Len(hasWrite)]]
  /\ treeOps' = treeOps + 1
  /\ UNCHANGED <<procid, regVars, recVars, teeVars, sinkVars>>

\* log.write(level, text).
TreeWrite(level, text) ==
  /\ treeOps < MaxTreeOps
  /\ log' = ContextTreeLog_write(log, level, text, procid)
  /\ hasWrite' = [i \in 1..Len(hasWrite) |-> TRUE]
  /\ treeLast' = [op |-> "write", before |-> log, clean |-> FALSE]
  /\ treeOps' = treeOps + 1
  /\ UNCHANGED <<procid, regVars, recVars, teeVars, sinkVars>>

TreeNext ==
  \/ \E title \in Titles, mayskip \in BOOLEAN : TreePush(title, mayskip)
  \/ TreePop
  \/ \E level \in WriteLevels, text \in Texts : TreeWrite(level, text)

\* ------------------------------------------------- the active-log registry --

\* The log instances of the registry model: the StdoutLog the module
\* activates when it is imported, two more plain logs, a RecordLog and
\* a TeeLog over the two plain logs.
Sinks == {"default", "a", "b", "rec", "tee"}

Kind(s) ==
  IF s = "tee" THEN "TeeLog" ELSE IF s = "rec" THEN "RecordLog" ELSE "StdoutLog"

\* TeeLog.logs.
TeeLogs(s) == IF s = "tee" THEN <<"a", "b">> ELSE <<>>

\* hasattr(self, '_old_log') is false.
Unset == "<unset>"

\* The registry's state as the methods below read and change it: `raised`
\* is the exception a method raised ("none" when it returned) and `ret`
\* the truth value __exit__ returned.
RegState ==
  [cur |-> _current_log, old |-> _old_log, stack |-> exit_stack,
   writes |-> writes, raised |-> "none", ret |-> FALSE]

\* Log.write by class: a plain log receives the call, TeeLog.write forwards
\* it to every child in order, RecordLog.write forwards it to its _old_log.
RECURSIVE LogWrite(_, _, _, _)
LogWrite(st, s, level, text) ==
  IF Kind(s) = "TeeLog" THEN
    LET RECURSIVE Each(_, _)
        Each(t, i) ==
          IF i > Len(TeeLogs(s)) THEN t
          ELSE Each(LogWrite(t, TeeLogs(s)[i], level, text), i + 1)
    IN Each(st, 1)
  ELSE IF Kind(s) = "RecordLog" THEN LogWrite(st, st.old[s], level, text)
  ELSE [st EXCEPT !.writes[s] = Append(@, <<level, text>>)]

\* Log.__enter__ without its guard.
Mutant_enter_unguarded(st, s) ==
  [st EXCEPT !.old[s] = st.cur, !.cur = s]

\* Log.__enter__: RuntimeError when the log has an _old_log; otherwise
\* remember the current log and become the current log.
Log_enter(st, s) ==
  IF st.old[s] # Unset THEN [st EXCEPT !.raised = "RuntimeError"]
  ELSE [st EXCEPT !.old[s] = st.cur, !.cur = s]

\* __enter__ by class.  TeeLog.__enter__ enters its children in order, each
\* through enter_context (which registers the child's __exit__ once its
\* __enter__ returned), then runs Log.__enter__; an exception raised on the
\* way propagates and leaves what was done so far.
RECURSIVE Enter(_, _)
Enter(st, s) ==
  IF Kind(s) = "TeeLog" THEN
    LET RECURSIVE Each(_, _)
        Each(t, i) ==
          IF i > Len(TeeLogs(s)) THEN t
          ELSE LET t1 == Enter(t, TeeLogs(s)[i]) IN
               IF t1.raised # "none" THEN t1
               ELSE Each([t1 EXCEPT !.stack[s] = Append(@, TeeLogs(s)[i])], i + 1)
        entered == Each(st, 1)
    IN IF entered.raised # "none" THEN entered ELSE Log_enter(entered, s)
  ELSE Log_enter(st, s)

\* The part of Log.__exit__ that reports the exception: 'killed by user' for
\* KeyboardInterrupt, SystemExit and BdbQuit, write_post_mortem (one
\* error-level write of the traceback) for any other exception.
ExitReport(st, s, etype) ==
  IF etype = "interrupt" THEN LogWrite(st, s, "error", "killed by user")
  ELSE IF etype # "none" THEN LogWrite(st, s, "error", "traceback")
  ELSE st

\* Log.__exit__ that keeps the _old_log attribute.
RECURSIVE Mutant_exit_keeps_old_log(_, _, _)
Mutant_exit_keeps_old_log(st, s, etype) ==
  IF st.old[s] = Unset THEN [st EXCEPT !.raised = "RuntimeError"]
  ELSE
    LET reported == ExitReport(st, s, etype)
        restored == [reported EXCEPT !.cur = reported.old[s]]
        RECURSIVE Unwind(_, _)
        Unwind(t, i) ==
          IF i = 0 THEN t
          ELSE Unwind(Mutant_exit_keeps_old_log(t, restored.stack[s][i], etype), i - 1)
    IN [Unwind([restored EXCEPT !.stack[s] = <<>>], Len(restored.stack[s]))
          EXCEPT !.ret = FALSE]

\* Log.__exit__: RuntimeError when the log has no _old_log; report the
\* exception; restore the current log and delete _old_log; then
\* ExitStack.__exit__ runs the registered callbacks, last registered first,
\* with the same exception.  The method returns None whatever the callbacks
\* return.
RECURSIVE Log_exit(_, _, _)
Log_exit(st, s, etype) ==
  IF st.old[s] = Unset THEN [st EXCEPT !.raised = "RuntimeError"]
  ELSE
    LET reported == ExitReport(st, s, etype)
        restored == [reported EXCEPT !.cur = reported.old[s], !.old[s] = Unset]
        RECURSIVE Unwind(_, _)
        Unwind(t, i) ==
          IF i = 0 THEN t
          ELSE Unwind(Log_exit(t, restored.stack[s][i], etype), i - 1)
    IN [Unwind([restored EXCEPT !.stack[s] = <<>>], Len(restored.stack[s]))
          EXCEPT !.ret = FALSE]

\* The state after the module is imported: _current_log = None, then
\* StdoutLog().__enter__().
RegStart ==
  /\ _current_log = "default"
  /\ _old_log = [s \in Sinks |-> IF s = "default" THEN "None" ELSE Unset]
  /\ exit_stack = [s \in Sinks |-> <<>>]
  /\ writes = [s \in Sinks |-> <<>>]
  /\ exc = "none"
  /\ scopes = <<>>
  /\ regLast = [op |-> "init", sink |-> "default", result |-> "none",
                cur |-> "None", old |-> Unset,
                olds |-> [s \in Sinks |-> Unset], etype |-> "none",
                writes |-> [s \in Sinks |-> <<>>],
                atRaise |-> [s \in Sinks |-> <<>>]]
  /\ regOps = 0

RegApply(st) ==
  /\ _current_log' = st.cur
  /\ _old_log' = st.old
  /\ exit_stack' = st.stack
  /\ writes' = st.writes

\* `with s:` reaches s.__enter__().  When __enter__ raises, the with-block is
\* not entered and the caller handles the error.
RegEnter(s) ==
  /\ regOps < MaxRegOps
  /\ exc = "none"
  /\ Len(scopes) < MaxScopes
  /\ LET st == Enter(RegState, s) IN
     /\ RegApply(st)
     /\ scopes' = IF st.raised = "none"
                  THEN Append(scopes, [sink |-> s, before |-> _current_log])
                  ELSE scopes
     /\ regLast' = [op |-> "enter", sink |-> s, result |-> st.raised,
                    cur |-> _current_log, old |-> _old_log[s],
                    olds |-> _old_log, etype |-> "none",
                    writes |-> writes, atRaise |-> regLast.atRaise]
  /\ regOps' = regOps + 1
  /\ UNCHANGED <<exc, treeVars, recVars, teeVars, sinkVars>>

\* The innermost with-block ends, normally or with the propagating
\* exception: s.__exit__(etype, value, tb).  The exception goes on
\* propagating unless __exit__ returned a true value.
RegExit ==
  /\ scopes # <<>>
  /\ LET top == scopes[Len(scopes)]
         st == Log_exit(RegState, top.sink, exc) IN
     /\ RegApply(st)
     /\ exc' = IF st.ret THEN "none" ELSE exc
     /\ regLast' = [op |-> "exit", sink |-> top.sink, result |-> st.raised,
                    cur |-> top.before, old |-> _old_log[top.sink],
                    olds |-> _old_log, etype |-> exc,
                    writes |-> writes, atRaise |-> regLast.atRaise]
  /\ scopes' = Front(scopes)
  /\ regOps' = regOps
  /\ UNCHANGED <<treeVars, recVars, teeVars, sinkVars>>

\* The body of the innermost with-block raises: a fault (any other
\* exception) or an interrupt (KeyboardInterrupt, SystemExit, BdbQuit).
RegRaise(etype) ==
  /\ regOps < MaxRegOps
  /\ exc = "none"
  /\ scopes # <<>>
  /\ exc' = etype
  /\ regLast' = [regLast EXCEPT !.op = "raise", !.etype = etype,
                                !.writes = writes, !.atRaise = writes]
  /\ regOps' = regOps + 1
  /\ UNCHANGED <<_current_log, _old_log, exit_stack, writes, scopes, treeVars, recVars, teeVars, sinkVars>>

\* The caller catches the propagating exception (around a with-block, or
\* at top level).
RegCatch ==
  /\ exc # "none"
  /\ exc' = "none"
  /\ regLast' = [regLast EXCEPT !.op = "catch", !.writes = writes]
  /\ UNCHANGED <<_current_log, _old_log, exit_stack, writes, scopes, regOps, treeVars, recVars, teeVars, sinkVars>>

\* _print(level, ...): _current_log.write(level, text).
RegWrite(level, text) ==
  /\ regOps < MaxRegOps
  /\ exc = "none"
  /\ RegApply(LogWrite(RegState, _current_log, level, text))
  /\ regLast' = [regLast EXCEPT !.op = "write", !.writes = writes]
  /\ regOps' = regOps + 1
  /\ UNCHANGED <<exc, scopes, treeVars, recVars, teeVars, sinkVars>>

RegNext ==
  \/ \E s \in Sinks \ {"default"} : RegEnter(s)
  \/ RegExit
  \/ \E etype \in {"fault", "interrupt"} : RegRaise(etype)
  \/ RegCatch
  \/ \E text \in Texts : RegWrite("info", text)

\* ---------------------------------------------------------- RecordLog ----

\* RecordLog.__init__.
NewRecordLog == [_messages |-> <<>>, _contexts |-> <<>>, _appended_contexts |-> 0]

\* The parameters of Log.open after self.
OpenParams == <<"filename", "mode", "level", "exists">>

\* The arguments RecordLog.open passes to self._old_log.open.
RecordOpenCallArgs(filename, mode, level, exists) == <<filename, mode, level>>

\* The attributes of io.StringIO and io.BytesIO that RecordLog.open could
\* read the buffered data with.
BufferAttrs == {"getvalue", "read", "write"}

\* The attribute RecordLog.open reads the buffered data with.
BufferAccessor == "getValue"

\* The 'entercontext' messages of the contexts not yet appended.
EnterMessages(titles) == [i \in 1..Len(titles) |-> <<"entercontext", titles[i]>>]

\* The recorder and the log it wraps, as the methods below read and change
\* them; `raised` is the exception a method raised ("none" when it returned).
RecState == [rec |-> rec, old |-> old, calls |-> oldCalls, raised |-> "none"]

\* RecordLog.context up to its yield: remember the title, enter the same
\* context on _old_log.
RecordLog_context_enter(st, title, mayskip) ==
  [st EXCEPT !.rec._contexts = Append(@, title),
             !.old = ContextLog_push_context(@, title, mayskip),
             !.calls = Append(@, <<"context", title, mayskip>>)]

\* RecordLog.context after its yield that appends 'exitcontext' for every
\* context, appended or not.
Mutant_context_exit_always(st) ==
  [st EXCEPT !.old = ContextTreeLog_pop_context(@),
             !.calls = Append(@, <<"pop">>),
             !.rec._contexts = Front(@),
             !.rec._messages = Append(@, <<"exitcontext">>)]

\* RecordLog.context after its yield: _old_log's context exits, then the
\* finally clause pops the title and, when the appended prefix reaches past
\* the new top, retracts it and appends 'exitcontext'.
RecordLog_context_exit(st) ==
  LET popped == Front(st.rec._contexts)
      left == [st EXCEPT !.old = ContextTreeLog_pop_context(@),
                         !.calls = Append(@, <<"pop">>),
                         !.rec._contexts = popped] IN
  IF st.rec._appended_contexts > Len(popped)
  THEN [left EXCEPT !.rec._appended_contexts = @ - 1,
                    !.rec._messages = Append(@, <<"exitcontext">>)]
  ELSE left

\* RecordLog.write that appends the 'entercontext' messages but does not
\* count them as appended.
Mutant_write_keeps_appended(st, level, text, p) ==
  LET fwd == [st EXCEPT !.old = ContextTreeLog_write(@, level, text, p),
                        !.calls = Append(@, <<"write", level, text>>)] IN
  IF Truthy(p) THEN fwd
  ELSE [fwd EXCEPT
          !.rec._messages =
             @ \o EnterMessages(Slice(st.rec._contexts, st.rec._appended_contexts))
               \o <<<<"write", level, text>>>>]

\* RecordLog.write: forward to _old_log; on the primary rank append
\* 'entercontext' for every context not yet appended, then the 'write'.
RecordLog_write(st, level, text, p) ==
  LET fwd == [st EXCEPT !.old = ContextTreeLog_write(@, level, text, p),
                        !.calls = Append(@, <<"write", level, text>>)] IN
  IF Truthy(p) THEN fwd
  ELSE [fwd EXCEPT
          !.rec._messages =
             @ \o EnterMessages(Slice(st.rec._contexts, st.rec._appended_contexts))
               \o <<<<"write", level, text>>>>,
          !.rec._appended_contexts = Len(st.rec._contexts)]

\* `with record.open(filename, mode, level, exists) as f: f.write(data)`.
\* RecordLog.open appends 'entercontext' for every context not yet appended
\* and creates the buffer; it then calls self._old_log.open with the
\* arguments of RecordOpenCallArgs, which raises TypeError unless they bind
\* to OpenParams.  Were the call to bind, the caller's data would go to the
\* file of _old_log and to the buffer, and after the block the buffered data
\* would be read with BufferAccessor, an AttributeError unless the buffer
\* has that attribute, before the 'open' message is appended.
RecordLog_open(st, filename, mode, level, exists, data, p) ==
  LET args == RecordOpenCallArgs(filename, mode, level, exists)
      flushed ==
        [st EXCEPT
           !.rec._messages =
              @ \o EnterMessages(Slice(st.rec._contexts, st.rec._appended_contexts)),
           !.rec._appended_contexts = Len(st.rec._contexts)] IN
  IF Len(args) # Len(OpenParams) THEN [flushed EXCEPT !.raised = "TypeError"]
  ELSE
    LET written ==
          [flushed EXCEPT
             !.old = HtmlLog_open_release(
                       HtmlLog_open_acquire(@, args[1], args[2], args[4]),
                       args[1], args[2], args[3], args[4], data, "none", p),
             !.calls = Append(@, <<"open">> \o args)] IN
    IF BufferAccessor \notin BufferAttrs
    THEN [written EXCEPT !.raised = "AttributeError"]
    ELSE [written EXCEPT
            !.rec._messages = Append(@, <<"open", filename, mode, level, exists, data>>)]

\* RecordLog.replay against the log `target`: walk the messages in order;
\* `contexts` counts the entered context managers replay holds.  Popping
\* from the empty list raises IndexError.
RECURSIVE Replay(_, _, _, _)
Replay(messages, target, contexts, p) ==
  IF messages = <<>> THEN [log |-> target, contexts |-> contexts, raised |-> "none"]
  ELSE
    LET msg == Head(messages)
        cmd == msg[1] IN
    IF cmd = "entercontext"
    THEN Replay(Tail(messages), ContextLog_push_context(target, msg[2], FALSE),
                contexts + 1, p)
    ELSE IF cmd = "exitcontext"
    THEN IF contexts = 0
         THEN [log |-> target, contexts |-> contexts, raised |-> "IndexError"]
         ELSE Replay(Tail(messages), ContextTreeLog_pop_context(target),
                     contexts - 1, p)
    ELSE IF cmd = "write"
    THEN Replay(Tail(messages), ContextTreeLog_write(target, msg[2], msg[3], p),
                contexts, p)
    ELSE IF cmd = "open"
    THEN Replay(Tail(messages),
                HtmlLog_open_release(
                  HtmlLog_open_acquire(target, msg[2], msg[3], msg[5]),
                  msg[2], msg[3], msg[4], msg[5], msg[6], "none", p),
                contexts, p)
    ELSE Replay(Tail(messages), target, contexts, p)

\* ---------------------------------------------------- the recorder model --

\* The contexts the caller enters: a title and its mayskip flag.
RecContexts == {<<"A", FALSE>>, <<"B", TRUE>>}

\* The files the caller opens: filename, mode, level, exists, data written.
RecFiles == {<<"f", "w", "user", "rename", "d">>}

\* `with RecordLog() as record:` has been entered while a fresh tree-style
\* log was active.
RecStart ==
  /\ rec = NewRecordLog
  /\ old = NewTreeLog
  /\ oldCalls = <<>>
  /\ issued = <<>>
  /\ direct = NewTreeLog
  /\ replayed = NewTreeLog
  /\ recLast = [op |-> "init", raised |-> "none", args |-> <<>>,
                pending |-> <<>>, messages |-> <<>>]
  /\ recOps = 0

RecApply(st) ==
  /\ rec' = st.rec
  /\ old' = st.old
  /\ oldCalls' = st.calls

\* with record.context(title, mayskip): on entry.
RecPush(title, mayskip) ==
  /\ recOps < MaxRecOps
  /\ Len(rec._contexts) < MaxDepth
  /\ RecApply(RecordLog_context_enter(RecState, title, mayskip))
  /\ issued' = Append(issued, <<"context", title, mayskip>>)
  /\ direct' = ContextLog_push_context(direct, title, mayskip)
  /\ recLast' = [op |-> "context", raised |-> "none", args |-> <<title, mayskip>>,
                 pending |-> <<>>, messages |-> rec._messages]
  /\ recOps' = recOps + 1
  /\ UNCHANGED <<replayed, procid, treeVars, regVars, teeVars, sinkVars>>

\* with record.context(...): on exit.
RecPop ==
  /\ recOps < MaxRecOps
  /\ Len(rec._contexts) > 0
  /\ RecApply(RecordLog_context_exit(RecState))
  /\ issued' = Append(issued, <<"pop">>)
  /\ direct' = ContextTreeLog_pop_context(direct)
  /\ recLast' = [op |-> "pop", raised |-> "none", args |-> <<>>,
                 pending |-> <<>>, messages |-> rec._messages]
  /\ recOps' = recOps + 1
  /\ UNCHANGED <<replayed, procid, treeVars, regVars, teeVars, sinkVars>>

\* record.write(level, text).
RecWrite(level, text) ==
  /\ recOps < MaxRecOps
  /\ RecApply(RecordLog_write(RecState, level, text, procid))
  /\ issued' = Append(issued, <<"write", level, text>>)
  /\ direct' = ContextTreeLog_write(direct, level, text, procid)
  /\ recLast' = [op |-> "write", raised |-> "none", args |-> <<level, text>>,
                 pending |-> <<>>, messages |-> rec._messages]
  /\ recOps' = recOps + 1
  /\ UNCHANGED <<replayed, procid, treeVars, regVars, teeVars, sinkVars>>

\* with record.open(filename, mode, level, exists) as f: f.write(data).
\* The caller handles what the statement raises.
RecOpen(filename, mode, level, exists, data) ==
  /\ recOps < MaxRecOps
  /\ LET st == RecordLog_open(RecState, filename, mode, level, exists, data, procid) IN
     /\ RecApply(st)
     /\ recLast' = [op |-> "open", raised |-> st.raised,
                    args |-> <<filename, mode, level, exists, data>>,
                    pending |-> Slice(rec._contexts, rec._appended_contexts),
                    messages |-> rec._messages]
  /\ issued' = Append(issued, <<"open", filename, mode, level, exists>>)
  /\ direct' = HtmlLog_open_release(
                 HtmlLog_open_acquire(direct, filename, mode, exists),
                 filename, mode, level, exists, data, "none", procid)
  /\ recOps' = recOps + 1
  /\ UNCHANGED <<replayed, procid, treeVars, regVars, teeVars, sinkVars>>

\* record.replay() while a fresh tree-style log is the active log.
RecReplay ==
  /\ recOps < MaxRecOps
  /\ LET r == Replay(rec._messages, NewTreeLog, 0, procid) IN
     /\ replayed' = r.log
     /\ recLast' = [op |-> "replay", raised |-> r.raised, args |-> <<>>,
                    pending |-> <<>>, messages |-> rec._messages]
  /\ recOps' = recOps + 1
  /\ UNCHANGED <<rec, old, oldCalls, issued, direct, procid, treeVars, regVars, teeVars, sinkVars>>

RecNext ==
  \/ \E c \in RecContexts : RecPush(c[1], c[2])
  \/ RecPop
  \/ \E level \in WriteLevels, text \in Texts : RecWrite(level, text)
  \/ \E f \in RecFiles : RecOpen(f[1], f[2], f[3], f[4], f[5])
  \/ RecReplay

\* -------------------------------------------------------------- TeeLog ----

\* The class of each child of the TeeLog: HtmlLog and IndentLog in turn.
ChildKind(i) == IF i % 2 = 1 THEN "HtmlLog" ELSE "IndentLog"

\* The children as the methods below read and change them; `raised` is the
\* exception that is propagating ("none" when there is none).
TeeState == [children |-> children, calls |-> childCalls, raised |-> "none"]

\* log.context(title, mayskip) up to its yield, for child i:
\* ContextLog.context calls _push_context outside its try.  `fails`: the
\* progress write of IndentLog._push_context raises, after the title was
\* appended.
Child_context_enter(st, i, title, mayskip, fails) ==
  [st EXCEPT !.children[i] = ContextLog_push_context(@, title, mayskip),
             !.calls[i] = Append(@, <<"context", title, mayskip>>),
             !.raised = IF fails THEN "OSError" ELSE @]

\* log.context(...) after its yield, for child i: the finally clause of
\* ContextLog.context calls _pop_context.  `fails`: the print of
\* HtmlLog._print_pop_context raises, after the title was popped and the
\* printed prefix retracted; a pop that prints nothing cannot fail.
Child_context_exit(st, i, fails) ==
  LET s == st.children[i]
      prints == s._printed_context > Len(s._context) - 1 IN
  IF fails /\ prints
  THEN [st EXCEPT !.children[i] = [s EXCEPT !._context = Front(@),
                                            !._printed_context = @ - 1],
                  !.calls[i] = Append(@, <<"pop">>),
                  !.raised = "OSError"]
  ELSE [st EXCEPT !.children[i] = ContextTreeLog_pop_context(s),
                  !.calls[i] = Append(@, <<"pop">>)]

\* ExitStack.__exit__ of a TeeLog context that stops at the first callback
\* that raises.
RECURSIVE Mutant_exit_stack_short_circuit(_, _, _)
Mutant_exit_stack_short_circuit(st, stack, failing) ==
  IF stack = <<>> THEN st
  ELSE LET i == stack[Len(stack)]
           t == Child_context_exit(st, i, i = failing) IN
       IF t.raised # "none" THEN t
       ELSE Mutant_exit_stack_short_circuit(t, Front(stack), failing)

\* ExitStack.__exit__ of a TeeLog context: every registered child context is
\* exited, last entered first, whether or not an earlier one raised; the
\* exception then propagates.
RECURSIVE TeeLog_context_exit(_, _, _)
TeeLog_context_exit(st, stack, failing) ==
  IF stack = <<>> THEN st
  ELSE LET i == stack[Len(stack)] IN
       TeeLog_context_exit(Child_context_exit(st, i, i = failing),
                           Front(stack), failing)

\* TeeLog.context up to its yield: enter the context of every child in
\* order, registering each on the ExitStack; when one raises, the
\* with-statement unwinds the ExitStack and the exception propagates.
\* `stack` is the ExitStack when the generator yields.
TeeLog_context_enter(st, title, mayskip, failAt) ==
  LET RECURSIVE Each(_, _, _)
      Each(t, stack, i) ==
        IF i > NChildren THEN [st |-> t, stack |-> stack]
        ELSE LET t1 == Child_context_enter(t, i, title, mayskip, i = failAt) IN
             IF t1.raised # "none"
             THEN [st |-> TeeLog_context_exit(t1, stack, 0), stack |-> <<>>]
             ELSE Each(t1, Append(stack, i), i + 1)
  IN Each(st, <<>>, 1)

\* TeeLog.write that stops after the first child.
Mutant_tee_write_first_only(st, level, text, p) ==
  [st EXCEPT !.children[1] = ContextTreeLog_write(@, level, text, p),
             !.calls[1] = Append(@, <<"write", level, text>>)]

\* TeeLog.write: log.write(level, text) for every child, in order.
TeeLog_write(st, level, text, p) ==
  LET RECURSIVE Each(_, _)
      Each(t, i) ==
        IF i > NChildren THEN t
        ELSE Each([t EXCEPT !.children[i] = ContextTreeLog_write(@, level, text, p),
                            !.calls[i] = Append(@, <<"write", level, text>>)],
                  i + 1)
  IN Each(st, 1)

\* log.open(filename, mode, level, exists) up to its yield, for child i.
\* `fails`: opening the file raises and the child holds no handle.
Child_open_acquire(st, i, filename, mode, level, exists, fails) ==
  IF fails
  THEN [st EXCEPT !.calls[i] = Append(@, <<"open", filename, mode, level, exists>>),
                  !.raised = "OSError"]
  ELSE [st EXCEPT !.children[i] = HtmlLog_open_acquire(@, filename, mode, exists),
                  !.calls[i] = Append(@, <<"open", filename, mode, level, exists>>)]

\* log.open(...) after its yield, for child i, by class; the exception that
\* is propagating, if any, is thrown into the child's generator.  `fails`:
\* reporting the file raises, after the file was closed.
Child_open_release(st, i, filename, mode, level, exists, data, fails, p) ==
  LET etype == IF st.raised # "none" \/ fails THEN "fault" ELSE "none"
      s == st.children[i]
      released ==
        IF ChildKind(i) = "HtmlLog"
        THEN HtmlLog_open_release(s, filename, mode, level, exists, data, etype, p)
        ELSE IndentLog_open_release(s, filename, mode, level, exists, data, etype, p) IN
  [st EXCEPT !.children[i] = released,
             !.calls[i] = Append(@, <<"close">>),
             !.raised = IF fails THEN "OSError" ELSE @]

\* `with tee.open(filename, mode, level, exists) as f: f.write(data)`.
\* TeeLog.open opens the file on every child in order, registering each on
\* an ExitStack, and yields a _multistream over the handles; the caller's
\* data goes to every handle; the ExitStack then releases every child, last
\* opened first, whether or not an earlier release raised.  When opening
\* raises on a child, the ExitStack releases the children opened so far.
TeeLog_open(st, filename, mode, level, exists, data, failAcquire, failRelease, p) ==
  LET RECURSIVE Unwind(_, _, _, _)
      Unwind(t, stack, written, failing) ==
        IF stack = <<>> THEN t
        ELSE LET i == stack[Len(stack)] IN
             Unwind(Child_open_release(t, i, filename, mode, level, exists,
                                       written, i = failing, p),
                    Front(stack), written, failing)
      RECURSIVE Each(_, _, _)
      Each(t, stack, i) ==
        IF i > NChildren THEN Unwind(t, stack, data, failRelease)
        ELSE LET t1 == Child_open_acquire(t, i, filename, mode, level, exists,
                                          i = failAcquire) IN
             IF t1.raised # "none" THEN Unwind(t1, stack, "", 0)
             ELSE Each(t1, Append(stack, i), i + 1)
  IN Each(st, <<>>, 1)

\* ------------------------------------------------------- the TeeLog model --

\* The children whose context entry can raise (IndentLog._push_context
\* writes the progress file) and those whose context exit can raise
\* (HtmlLog._print_pop_context prints).
EnterCanFail == {i \in 1..NChildren : ChildKind(i) = "IndentLog"}

ExitCanFail == {i \in 1..NChildren : ChildKind(i) = "HtmlLog"}

\* TeeLog(*logs) over fresh children.
TeeStart ==
  /\ children = [i \in 1..NChildren |-> NewTreeLog]
  /\ childCalls = [i \in 1..NChildren |-> <<>>]
  /\ teeStacks = <<>>
  /\ teeIssued = <<>>
  /\ teeLast = [op |-> "init", raised |-> "none", fail |-> 0, phase |-> "none",
                before |-> [i \in 1..NChildren |-> NewTreeLog]]
  /\ teeOps = 0

TeeApply(st) ==
  /\ children' = st.children
  /\ childCalls' = st.calls

\* with tee.context(title, mayskip): on entry.  The caller handles what the
\* entry raises.
TeePush(title, mayskip, failAt) ==
  /\ teeOps < MaxTeeOps
  /\ Len(teeStacks) < MaxDepth
  /\ LET r == TeeLog_context_enter(TeeState, title, mayskip, failAt) IN
     /\ TeeApply(r.st)
     /\ teeStacks' = IF r.st.raised = "none" THEN Append(teeStacks, r.stack)
                     ELSE teeStacks
     /\ teeLast' = [op |-> "context", raised |-> r.st.raised, fail |-> failAt,
                    phase |-> "acquire", before |-> children]
  /\ teeIssued' = Append(teeIssued, <<"context", title, mayskip>>)
  /\ teeOps' = teeOps + 1
  /\ UNCHANGED <<procid, treeVars, regVars, recVars, sinkVars>>

\* with tee.context(...): on exit.  The caller handles what the exit raises.
TeePop(failing) ==
  /\ teeOps < MaxTeeOps
  /\ teeStacks # <<>>
  /\ LET st == TeeLog_context_exit(TeeState, teeStacks[Len(teeStacks)], failing) IN
     /\ TeeApply(st)
     /\ teeLast' = [op |-> "pop", raised |-> st.raised, fail |-> failing,
                    phase |-> "release", before |-> children]
  /\ teeStacks' = Front(teeStacks)
  /\ teeIssued' = Append(teeIssued, <<"pop">>)
  /\ teeOps' = teeOps + 1
  /\ UNCHANGED <<procid, treeVars, regVars, recVars, sinkVars>>

\* tee.write(level, text).
TeeWrite(level, text) ==
  /\ teeOps < MaxTeeOps
  /\ TeeApply(TeeLog_write(TeeState, level, text, procid))
  /\ teeLast' = [op |-> "write", raised |-> "none", fail |-> 0, phase |-> "none",
                 before |-> children]
  /\ teeIssued' = Append(teeIssued, <<"write", level, text>>)
  /\ teeOps' = teeOps + 1
  /\ UNCHANGED <<teeStacks, procid, treeVars, regVars, recVars, sinkVars>>

\* with tee.open(filename, mode, level, exists) as f: f.write(data).  The
\* caller handles what the statement raises.
TeeOpen(filename, mode, level, exists, data, failAcquire, failRelease) ==
  /\ teeOps < MaxTeeOps
  /\ LET st == TeeLog_open(TeeState, filename, mode, level, exists, data,
                           failAcquire, failRelease, procid) IN
     /\ TeeApply(st)
     /\ teeLast' = [op |-> "open", raised |-> st.raised,
                    fail |-> IF failAcquire # 0 THEN failAcquire ELSE failRelease,
                    phase |-> IF failAcquire # 0 THEN "acquire" ELSE "release",
                    before |-> children]
  /\ teeIssued' = teeIssued \o << <<"open", filename, mode, level, exists>>,
                                 <<"close">> >>
  /\ teeOps' = teeOps + 1
  /\ UNCHANGED <<teeStacks, procid, treeVars, regVars, recVars, sinkVars>>

\* The TeeLog over children whose operations all return.
TeeNext ==
  \/ \E c \in RecContexts : TeePush(c[1], c[2], 0)
  \/ TeePop(0)
  \/ \E level \in WriteLevels, text \in Texts : TeeWrite(level, text)
  \/ \E f \in RecFiles : TeeOpen(f[1], f[2], f[3], f[4], f[5], 0, 0)

\* The TeeLog over children of which one may raise in an operation.
TeeFaultNext ==
  \/ \E c \in RecContexts, failAt \in {0} \cup EnterCanFail :
       TeePush(c[1], c[2], failAt)
  \/ \E failing \in {0} \cup ExitCanFail : TeePop(failing)
  \/ \E text \in Texts : TeeWrite("error", text)
  \/ \E f \in RecFiles, failAcquire \in 0..NChildren :
       TeeOpen(f[1], f[2], f[3], f[4], f[5], failAcquire, 0)
  \/ \E f \in RecFiles, failRelease \in 1..NChildren :
       TeeOpen(f[1], f[2], f[3], f[4], f[5], 0, failRelease)

\* ------------------------------------------- StdoutLog / RichOutputLog ----

\* text = None in _mkstr: a progress line, no message text.
NoText == "<None>"

\* The values of config.verbose: the number of levels of LEVELS that are
\* shown, so that the threshold is the level LEVELS[verbose].
Verbosities == 0..Len(LEVELS)

\* The progressinterval of the RichOutputLog, in ticks of the clock.
ProgressInterval == 2

\* The levels written on the console log: all of LEVELS.
ConsoleLevels == {LEVELS[i] : i \in 1..Len(LEVELS)}

\* StdoutLog.__init__ / RichOutputLog.__init__: no context; for the
\* RichOutputLog a progress line may be written at once.
NewConsoleLog(class) ==
  [class |-> class, _context |-> <<>>, _progressupdate |-> 0,
   _progressinterval |-> ProgressInterval]

\* sep.join(items).
RECURSIVE Join(_, _)
Join(sep, items) ==
  IF items = <<>> THEN ""
  ELSE IF Len(items) = 1 THEN items[1]
  ELSE items[1] \o sep \o Join(sep, Tail(items))

\* [text] if text is not None else [].
TextItems(text) == IF text = NoText THEN <<>> ELSE <<text>>

\* StdoutLog._mkstr: context and text joined by ' > '.
StdoutLog_mkstr(s, level, text) ==
  [log |-> s, string |-> Join(" > ", s._context \o TextItems(text))]

\* RichOutputLog.cmap: (color, bold) by level.
CMap ==
  [path |-> <<2, 1>>, error |-> <<1, 1>>, warning |-> <<1, 0>>, user |-> <<3, 0>>]

\* RichOutputLog._mkstr: the context trail dimmed, then the text in the
\* colour of its level; a message text resets _progressupdate, a progress
\* line (no text) leaves it alone.  ESC stands for the escape character.
RichOutputLog_mkstr(s, level, text) ==
  LET trail == Join(" . ", s._context)
      head == IF text = NoText THEN trail
              ELSE IF s._context = <<>> THEN "" ELSE trail \o " . "
      rest == IF text = NoText THEN "" ELSE text
      after == IF text = NoText THEN s ELSE [s EXCEPT !._progressupdate = 0]
  IN [log |-> after,
      string |->
        IF level \in DOMAIN CMap
        THEN "ESC[KESC[1;30m" \o head \o "ESC[" \o ToString(CMap[level][2])
               \o ";3" \o ToString(CMap[level][1]) \o "m" \o rest \o "ESC[0m"
        ELSE "ESC[KESC[1;30m" \o head \o "ESC[0m" \o rest]

\* self._mkstr by class.
Mkstr(s, level, text) ==
  IF s.class = "RichOutputLog" THEN RichOutputLog_mkstr(s, level, text)
  ELSE StdoutLog_mkstr(s, level, text)

\* print(string, end=end, file=self.stream).
Printed(string, end) == <<[string |-> string, end |-> end]>>

\* StdoutLog.write that prints whatever the level.
Mutant_write_unfiltered(s, level, text, v, p) ==
  LET m == Mkstr(s, level, text) IN
  [log |-> m.log, printed |-> Printed(m.string, "\n")]

\* StdoutLog.write that tags the text with the rank but prints on the rank
\* that never forked only.
Mutant_write_primary_only(s, level, text, v, p) ==
  IF \A i \in 1..Len(Slice(LEVELS, v)) : Slice(LEVELS, v)[i] # level THEN
    LET m == Mkstr(s, level, text) IN
    [log |-> m.log,
     printed |-> IF p # NoProcid THEN <<>> ELSE Printed(m.string, "\n")]
  ELSE [log |-> s, printed |-> <<>>]

\* StdoutLog.write (RichOutputLog inherits it): a level that is not in
\* LEVELS[verbose:] is printed, the text tagged with the rank when
\* parallel.procid is not None.
StdoutLog_write(s, level, text, v, p) ==
  IF \A i \in 1..Len(Slice(LEVELS, v)) : Slice(LEVELS, v)[i] # level THEN
    LET tagged == IF p # NoProcid THEN "[" \o ToString(p) \o "] " \o text
                  ELSE text
        m == Mkstr(s, level, tagged)
    IN [log |-> m.log, printed |-> Printed(m.string, "\n")]
  ELSE [log |-> s, printed |-> <<>>]

\* StdoutLog.open: the caller's block gets _devnull(filename); when the
\* block ends normally the filename is written at the given level, when it
\* raises nothing is written.
StdoutLog_open(s, filename, mode, level, exists, etype, v, p) ==
  IF etype = "none" THEN StdoutLog_write(s, level, filename, v, p)
  ELSE [log |-> s, printed |-> <<>>]

\* RichOutputLog._push_context that repaints only when the interval has
\* passed, whatever mayskip.
Mutant_push_context_always_throttled(s, title, mayskip, p, t) ==
  LET pushed == ContextLog_push_context(s, title, mayskip) IN
  IF Truthy(p) \/ t < pushed._progressupdate
  THEN [log |-> pushed, printed |-> <<>>]
  ELSE LET m == RichOutputLog_mkstr(
                  [pushed EXCEPT !._progressupdate = t + pushed._progressinterval],
                  "progress", NoText)
       IN [log |-> m.log, printed |-> Printed(m.string, "\r")]

\* RichOutputLog._push_context: push; nothing more on a worker rank;
\* otherwise print the progress line when the push may not be skipped or
\* the time has reached _progressupdate, and move _progressupdate one
\* interval ahead.
RichOutputLog_push_context(s, title, mayskip, p, t) ==
  LET pushed == ContextLog_push_context(s, title, mayskip) IN
  IF Truthy(p) THEN [log |-> pushed, printed |-> <<>>]
  ELSE IF ~mayskip \/ t >= pushed._progressupdate THEN
    LET m == RichOutputLog_mkstr(
               [pushed EXCEPT !._progressupdate = t + pushed._progressinterval],
               "progress", NoText)
    IN [log |-> m.log, printed |-> Printed(m.string, "\r")]
  ELSE [log |-> pushed, printed |-> <<>>]

\* self._push_context by class.
ConsolePushContext(s, title, mayskip, p, t) ==
  IF s.class = "RichOutputLog" THEN RichOutputLog_push_context(s, title, mayskip, p, t)
  ELSE [log |-> ContextLog_push_context(s, title, mayskip), printed |-> <<>>]

\* ContextLog._pop_context: only removes the last title.
ContextLog_pop_context(s) == [s EXCEPT !._context = Front(@)]

\* The console log before an operation, with the time of the last repaint
\* of the progress line and whether a message was printed after it.
ConBefore ==
  [log |-> console, repaintedAt |-> repaintedAt, writtenSince |-> writtenSince]

\* A console log of class `class` right after construction, under
\* config.verbose = v.
ConStart(class, v) ==
  /\ console = NewConsoleLog(class)
  /\ verbose = v
  /\ now = 1
  /\ repaintedAt = -1
  /\ writtenSince = FALSE
  /\ conLast = [op |-> "init", level |-> "none", text |-> "", mayskip |-> FALSE,
                printed |-> <<>>, at |-> 1,
                before |-> [log |-> NewConsoleLog(class), repaintedAt |-> -1,
                            writtenSince |-> FALSE]]

\* What an operation that printed `printed` leaves in the two records of
\* the progress line: a line ended by a carriage return is a repaint, a line
\* ended by a newline is a message.
ConTrack(printed) ==
  /\ repaintedAt' = IF printed # <<>> /\ printed[1].end = "\r" THEN now
                    ELSE repaintedAt
  /\ writtenSince' = IF printed # <<>> /\ printed[1].end = "\r" THEN FALSE
                     ELSE IF printed # <<>> THEN TRUE ELSE writtenSince

\* with console.context(title, mayskip): on entry.
ConPush(title, mayskip) ==
  /\ Len(console._context) < MaxConDepth
  /\ LET r == ConsolePushContext(console, title, mayskip, procid, now) IN
     /\ console' = r.log
     /\ ConTrack(r.printed)
     /\ conLast' = [op |-> "push", level |-> "none", text |-> title,
                    mayskip |-> mayskip,
                    printed |-> r.printed, at |-> now, before |-> ConBefore]
  /\ UNCHANGED <<verbose, now, treeVars, regVars, recVars, teeVars, lateVars, dirVars, fileVars>>

\* with console.context(...): on exit.
ConPop ==
  /\ Len(console._context) > 0
  /\ console' = ContextLog_pop_context(console)
  /\ conLast' = [op |-> "pop", level |-> "none", text |-> "", mayskip |-> FALSE,
                 printed |-> <<>>, at |-> now, before |-> ConBefore]
  /\ UNCHANGED <<verbose, now, repaintedAt, writtenSince, treeVars, regVars, recVars, teeVars, lateVars, dirVars, fileVars>>

\* console.write(level, text).
ConWrite(level, text) ==
  /\ LET r == StdoutLog_write(console, level, text, verbose, procid) IN
     /\ console' = r.log
     /\ ConTrack(r.printed)
     /\ conLast' = [op |-> "write", level |-> level, text |-> text,
                    mayskip |-> FALSE,
                    printed |-> r.printed, at |-> now, before |-> ConBefore]
  /\ UNCHANGED <<verbose, now, treeVars, regVars, recVars, teeVars, lateVars, dirVars, fileVars>>

\* with console.open(filename, mode, level, exists): the whole block, ended
\* normally or by an exception.
ConOpen(filename, mode, level, exists, etype) ==
  /\ LET r == StdoutLog_open(console, filename, mode, level, exists, etype,
                             verbose, procid) IN
     /\ console' = r.log
     /\ ConTrack(r.printed)
     /\ conLast' = [op |-> "open", level |-> level, text |-> filename,
                    mayskip |-> FALSE,
                    printed |-> r.printed, at |-> now, before |-> ConBefore]
  /\ UNCHANGED <<verbose, now, treeVars, regVars, recVars, teeVars, lateVars, dirVars, fileVars>>

\* Time passes between two operations.
ConTick ==
  /\ now < MaxTime
  /\ now' = now + 1
  /\ conLast' = [conLast EXCEPT !.op = "tick"]
  /\ UNCHANGED <<console, verbose, repaintedAt, writtenSince, treeVars, regVars, recVars, teeVars, lateVars, dirVars, fileVars>>

ConNext ==
  \/ \E title \in Titles, mayskip \in BOOLEAN : ConPush(title, mayskip)
  \/ ConPop
  \/ \E level \in ConsoleLevels, text \in Texts : ConWrite(level, text)
  \/ \E etype \in {"none", "fault"} : ConOpen("f", "w", "user", "rename", etype)
  \/ ConTick

\* ------------------------------------------------------------ _makedirs ----

\* The file names asked for, as os.path.splitext splits them: (root, ext).
FileNames == {<<"out", ".txt">>, <<"out-1", ".txt">>, <<"log", "">>}

\* The modes and exists policies callers pass, valid and invalid.
Modes == {"w", "wb", "r"}

Policies == {"overwrite", "rename", "skip", "append"}

\* The data a caller writes to the handle it got.
Data == {"new"}

\* The file name as one string.
FileName(filename) == filename[1] \o filename[2]

\* '-{}'.join(os.path.splitext(filename)).format(n).
Renamed(filename, n) == filename[1] \o "-" \o ToString(n) \o filename[2]

\* The first of the names map(...format, itertools.count(n)) yields that
\* is not in listdir.
RECURSIVE FirstFree(_, _, _)
FirstFree(filename, listdir, n) ==
  IF Renamed(filename, n) \notin listdir THEN Renamed(filename, n)
  ELSE FirstFree(filename, listdir, n + 1)

\* _devnull(name): a handle that is false and drops what is written to it.
Devnull(name) == [name |-> name, real |-> FALSE]

\* builtins.open(name, mode, opener=self._open) for a write mode: the file
\* is created, or truncated when it exists; the handle is a true value.
BuiltinsOpen(d, name) ==
  [dir |-> [n \in DOMAIN d \cup {name} |-> IF n = name THEN "" ELSE d[n]],
   handle |-> [name |-> name, real |-> TRUE],
   raised |-> "none"]

\* handle.write(data) followed by handle.close().
HandleWrite(d, handle, data) ==
  IF handle.real THEN [d EXCEPT ![handle.name] = @ \o data] ELSE d

\* bool(handle).
HandleBool(handle) == handle.real

\* _makedirs.open that always takes the first renamed name.
Mutant_open_rename_first(d, filename, mode, exists) ==
  IF mode \notin {"w", "wb"} \/ exists \notin {"overwrite", "rename", "skip"}
  THEN [dir |-> d, handle |-> Devnull(""), raised |-> "ValueError"]
  ELSE IF exists # "overwrite" /\ FileName(filename) \in DOMAIN d THEN
    IF exists = "skip"
    THEN [dir |-> d, handle |-> Devnull(FileName(filename)), raised |-> "none"]
    ELSE BuiltinsOpen(d, Renamed(filename, 1))
  ELSE BuiltinsOpen(d, FileName(filename))

\* _makedirs.open that renames under the skip policy too.
Mutant_open_skip_renames(d, filename, mode, exists) ==
  IF mode \notin {"w", "wb"} \/ exists \notin {"overwrite", "rename", "skip"}
  THEN [dir |-> d, handle |-> Devnull(""), raised |-> "ValueError"]
  ELSE IF exists # "overwrite" /\ FileName(filename) \in DOMAIN d THEN
    BuiltinsOpen(d, FirstFree(filename, DOMAIN d, 1))
  ELSE BuiltinsOpen(d, FileName(filename))

\* _makedirs.open that opens the file before it checks its arguments.
Mutant_open_validates_late(d, filename, mode, exists) ==
  IF mode \notin {"w", "wb"} \/ exists \notin {"overwrite", "rename", "skip"}
  THEN [BuiltinsOpen(d, FileName(filename)) EXCEPT !.raised = "ValueError"]
  ELSE IF exists # "overwrite" /\ FileName(filename) \in DOMAIN d THEN
    IF exists = "skip"
    THEN [dir |-> d, handle |-> Devnull(FileName(filename)), raised |-> "none"]
    ELSE BuiltinsOpen(d, FirstFree(filename, DOMAIN d, 1))
  ELSE BuiltinsOpen(d, FileName(filename))

\* _makedirs.open: ValueError for a mode other than 'w' and 'wb', then for
\* an exists other than the three policies; under rename and skip the
\* directory is listed and, when the name is in it, skip returns a
\* _devnull and rename takes the first free name-n.ext; the file of the
\* resulting name is opened for writing.
makedirs_open(d, filename, mode, exists) ==
  IF mode \notin {"w", "wb"}
  THEN [dir |-> d, handle |-> Devnull(""), raised |-> "ValueError"]
  ELSE IF exists \notin {"overwrite", "rename", "skip"}
  THEN [dir |-> d, handle |-> Devnull(""), raised |-> "ValueError"]
  ELSE IF exists # "overwrite" /\ FileName(filename) \in DOMAIN d THEN
    IF exists = "skip"
    THEN [dir |-> d, handle |-> Devnull(FileName(filename)), raised |-> "none"]
    ELSE BuiltinsOpen(d, FirstFree(filename, DOMAIN d, 1))
  ELSE BuiltinsOpen(d, FileName(filename))

\* A directory that holds the files `names`, written before.
NewDir(names) == [n \in names |-> "old"]

DirStart(names) ==
  /\ dir = NewDir(names)
  /\ dirLast = [op |-> "init", filename |-> <<"", "">>, mode |-> "w",
                exists |-> "overwrite", data |-> "", raised |-> "none",
                handle |-> Devnull(""), before |-> NewDir(names)]
  /\ dirOps = 0

\* with open(filename, mode, exists) as f: f.write(data), for the open
\* function a _makedirs returned; nothing is written when open raises.
DirOpen(filename, mode, exists, data) ==
  /\ dirOps < MaxDirOps
  /\ LET r == makedirs_open(dir, filename, mode, exists) IN
     /\ dir' = IF r.raised = "none" THEN HandleWrite(r.dir, r.handle, data)
               ELSE r.dir
     /\ dirLast' = [op |-> "open", filename |-> filename, mode |-> mode,
                    exists |-> exists, data |-> data, raised |-> r.raised,
                    handle |-> r.handle, before |-> dir]
  /\ dirOps' = dirOps + 1
  /\ UNCHANGED <<treeVars, regVars, recVars, teeVars, lateVars, conVars, fileVars>>

DirNext ==
  \E filename \in FileNames, mode \in Modes, exists \in Policies, data \in Data :
    DirOpen(filename, mode, exists, data)

\* ----------------------------------------------------- HtmlLog / IndentLog --

\* The texts written to the file-backed log, as the lines str.splitlines
\* splits them into.
FileTexts == {<<"x">>, <<"x", "y">>, <<"a<b">>}

\* The progressinterval of the IndentLog (one second), in ticks of the clock.
IndentProgressInterval == 1

\* None, for the level of _print_progress(None, None).
NoLevel == "<None>"

\* html.escape on the strings of the model: "a<b" is the one that holds a
\* character html.escape replaces.
HtmlEscape(string) == IF string = "a<b" THEN "a&lt;b" ELSE string

EscapeLines(text) == [i \in 1..Len(text) |-> HtmlEscape(text[i])]

\* level[0].
LevelInitial(level) ==
  [error |-> "e", warning |-> "w", user |-> "u", info |-> "i", debug |-> "d"][level]

\* LEVELS.index(level), counted from 0.
LevelIndex(level) == (CHOOSE i \in 1..Len(LEVELS) : LEVELS[i] = level) - 1

\* A string of n spaces.
RECURSIVE Spaces(_)
Spaces(n) == IF n = 0 THEN "" ELSE " " \o Spaces(n - 1)

\* file.tell() of a text file that holds the printed strings `lines`, each
\* followed by a newline.
RECURSIVE Tell(_)
Tell(lines) ==
  IF lines = <<>> THEN 0 ELSE Len(Head(lines)) + 1 + Tell(Tail(lines))

\* '<a href="{href}">{name}</a>'.format(href=urllib.parse.quote(f.name),
\* name=html.escape(filename)); the names of the model hold no character
\* that quote or escape replaces.
FileLink(name, filename) ==
  "<a href=\"" \o name \o "\">" \o HtmlEscape(filename) \o "</a>"

\* The lines HtmlLog.__enter__ prints to log.html.
HtmlHeader == <<"<!DOCTYPE html>", "<html>", "<head>", "<body>", "<div id=\"log\">">>

\* The log after __enter__ in an output directory that held the files
\* `names`: HtmlLog.__enter__ adds its three dependencies and log.html,
\* IndentLog.__enter__ log.html and progress.json.  `logfile` holds the
\* strings printed to log.html, `progress` the JSON objects progress.json
\* holds, `out` the calls made to the three printers; `dir` keeps the names
\* of the two files and the contents of the others.
NewFileLog(class, names) ==
  [class |-> class, _context |-> <<>>, _printed_context |-> 0,
   _prefix |-> 0, _progressupdate |-> 0,
   _progressinterval |-> IndentProgressInterval,
   logfile |-> IF class = "HtmlLog" THEN HtmlHeader ELSE <<>>,
   progress |-> <<>>,
   out |-> <<>>,
   dir |-> [n \in names \cup
              (IF class = "HtmlLog"
               THEN {"sha1.png", "sha1.css", "sha1.js", "log.html"}
               ELSE {"log.html", "progress.json"}) |->
            IF n \in names THEN "old" ELSE ""]]

\* HtmlLog._print / IndentLog._print: one print to the log file.
FilePrint(s, string) == [s EXCEPT !.logfile = Append(@, string)]

\* HtmlLog._print_push_context.
HtmlLog_print_push_context(s, title) ==
  [FilePrint(s, "<div class=\"context\"><div class=\"title\">" \o HtmlEscape(title)
                  \o "</div><div class=\"children\">")
     EXCEPT !.out = Append(@, <<"push", title>>)]

\* HtmlLog._print_pop_context.
HtmlLog_print_pop_context(s) ==
  [FilePrint(s, "</div><div class=\"end\"></div></div>")
     EXCEPT !.out = Append(@, <<"pop">>)]

\* HtmlLog._print_item: one div that holds the text, escaped unless
\* escape is false.
HtmlLog_print_item(s, level, text, escape) ==
  [FilePrint(s, "<div class=\"item\" data-loglevel=\"" \o ToString(LevelIndex(level))
                  \o "\">" \o Join("\n", IF escape THEN EscapeLines(text) ELSE text)
                  \o "</div>")
     EXCEPT !.out = Append(@, <<"item", level, text>>)]

\* IndentLog._print_progress: progress.json is emptied, then one object is
\* written to it.
IndentLog_print_progress(s, level, text) ==
  [s EXCEPT !.progress = <<[logpos |-> Tell(s.logfile), context |-> s._context,
                            text |-> text, level |-> level]>>]

\* IndentLog._print_push_context: 'c title' behind the prefix, which grows
\* by one space.
IndentLog_print_push_context(s, title) ==
  [FilePrint(s, Spaces(s._prefix) \o "c " \o HtmlEscape(title))
     EXCEPT !._prefix = @ + 1, !.out = Append(@, <<"push", title>>)]

\* IndentLog._print_pop_context: the prefix loses its last space (an empty
\* prefix stays empty).
IndentLog_print_pop_context(s) ==
  [s EXCEPT !._prefix = IF @ = 0 THEN 0 ELSE @ - 1, !.out = Append(@, <<"pop">>)]

\* IndentLog._print_item: the text is escaped unless escape is false; the
\* local `level` becomes the first character of the level; every line of
\* the text is printed behind the prefix and the local `level`, which
\* becomes '|' after the first line; then _print_progress is called with
\* the local `level` and the text as they are by then, and _progressupdate
\* is reset.
IndentLog_print_item(s, level, text, escape) ==
  LET lines == IF escape THEN EscapeLines(text) ELSE text
      initial == HtmlEscape(LevelInitial(level))
      RECURSIVE PrintLines(_, _)
      PrintLines(t, i) ==
        IF i > Len(lines) THEN t
        ELSE PrintLines(FilePrint(t, Spaces(s._prefix)
                                       \o (IF i = 1 THEN initial ELSE "|")
                                       \o " " \o lines[i]), i + 1)
      printed == PrintLines(s, 1)
      levelAfter == IF lines = <<>> THEN initial ELSE "|"
  IN [IndentLog_print_progress(printed, levelAfter, lines)
        EXCEPT !._progressupdate = 0, !.out = Append(@, <<"item", level, text>>)]

\* The three printers by class.
PrintPushContext(s, title) ==
  IF s.class = "HtmlLog" THEN HtmlLog_print_push_context(s, title)
  ELSE IndentLog_print_push_context(s, title)

PrintPopContext(s) ==
  IF s.class = "HtmlLog" THEN HtmlLog_print_pop_context(s)
  ELSE IndentLog_print_pop_context(s)

PrintItem(s, level, text, escape) ==
  IF s.class = "HtmlLog" THEN HtmlLog_print_item(s, level, text, escape)
  ELSE IndentLog_print_item(s, level, text, escape)

\* IndentLog._push_context: push; nothing more on a worker rank or before
\* _progressupdate; otherwise _print_progress(None, None), and
\* _progressupdate moves one interval ahead.
IndentLog_push_context(s, title, mayskip, p, t) ==
  LET pushed == ContextLog_push_context(s, title, mayskip) IN
  IF Truthy(p) \/ t < pushed._progressupdate THEN pushed
  ELSE [IndentLog_print_progress(pushed, NoLevel, NoText)
          EXCEPT !._progressupdate = t + pushed._progressinterval]

\* self._push_context by class; HtmlLog has the one of ContextLog.
FilePushContext(s, title, mayskip, p, t) ==
  IF s.class = "IndentLog" THEN IndentLog_push_context(s, title, mayskip, p, t)
  ELSE ContextLog_push_context(s, title, mayskip)

\* ContextTreeLog._pop_context with the printers of the class.
FilePopContext(s) ==
  LET popped == [s EXCEPT !._context = Front(@)] IN
  IF popped._printed_context > Len(popped._context)
  THEN PrintPopContext([popped EXCEPT !._printed_context = @ - 1])
  ELSE popped

\* ContextTreeLog.write with the printers of the class: nothing on a worker
\* rank; otherwise every title of _context[_printed_context:] is printed
\* and counted, then the item is printed.
FileWrite(s, level, text, escape, p) ==
  IF Truthy(p) THEN s
  ELSE LET RECURSIVE Flush(_)
           Flush(t) ==
             IF t._printed_context >= Len(t._context) THEN t
             ELSE Flush([PrintPushContext(t, t._context[t._printed_context + 1])
                           EXCEPT !._printed_context = @ + 1])
       IN PrintItem(Flush(s), level, text, escape)

\* The with-statement of HtmlLog.open and IndentLog.open around the
\* caller's block: the file is opened in the log's directory; the block
\* writes data to it and ends normally, or raises before it wrote; the file
\* is closed.  ValueError of _makedirs.open comes before the block.
FileOpenBlock(s, filename, mode, exists, data, etype) ==
  LET r == makedirs_open(s.dir, filename, mode, exists) IN
  IF r.raised # "none" THEN [log |-> s, handle |-> r.handle, raised |-> r.raised]
  ELSE [log |-> [s EXCEPT !.dir = IF etype = "none"
                                  THEN HandleWrite(r.dir, r.handle, data)
                                  ELSE r.dir],
        handle |-> r.handle, raised |-> etype]

\* HtmlLog.open: after the with-statement, when nothing was raised, the
\* link to the file is reported with self.write(level, link, escape=False).
HtmlLog_open(s, filename, mode, level, exists, data, etype, p) ==
  LET b == FileOpenBlock(s, filename, mode, exists, data, etype) IN
  IF b.raised # "none" THEN b
  ELSE [b EXCEPT !.log = FileWrite(b.log, level,
                           <<FileLink(b.handle.name, FileName(filename))>>, FALSE, p)]

\* IndentLog.open: after the with-statement, when nothing was raised, the
\* link to the file is reported with self._print_item(level, link,
\* escape=False).
IndentLog_open(s, filename, mode, level, exists, data, etype, p) ==
  LET b == FileOpenBlock(s, filename, mode, exists, data, etype) IN
  IF b.raised # "none" THEN b
  ELSE [b EXCEPT !.log = IndentLog_print_item(b.log, level,
                           <<FileLink(b.handle.name, FileName(filename))>>, FALSE)]

\* self.open by class.
FileOpen(s, filename, mode, level, exists, data, etype, p) ==
  IF s.class = "HtmlLog" THEN HtmlLog_open(s, filename, mode, level, exists, data, etype, p)
  ELSE IndentLog_open(s, filename, mode, level, exists, data, etype, p)

\* A file-backed log of class `class` right after __enter__ in a directory
\* that held the files `names`.
FileStart(class, names) ==
  /\ flog = NewFileLog(class, names)
  /\ clock = 1
  /\ fileLast = [op |-> "init", level |-> "none", text |-> <<>>,
                 raised |-> "none", handle |-> Devnull(""),
                 before |-> NewFileLog(class, names)]
  /\ fileOps = 0

\* with flog.context(title, mayskip): on entry.
FilePush(title, mayskip) ==
  /\ fileOps < MaxFileOps
  /\ Len(flog._context) < MaxDepth
  /\ flog' = FilePushContext(flog, title, mayskip, procid, clock)
  /\ fileLast' = [op |-> "push", level |-> "none", text |-> <<title>>,
                  raised |-> "none", handle |-> Devnull(""), before |-> flog]
  /\ fileOps' = fileOps + 1
  /\ UNCHANGED <<clock, treeVars, regVars, recVars, teeVars, lateVars, conVars, dirVars>>

\* with flog.context(...): on exit.
FilePop ==
  /\ fileOps < MaxFileOps
  /\ Len(flog._context) > 0
  /\ flog' = FilePopContext(flog)
  /\ fileLast' = [op |-> "pop", level |-> "none", text |-> <<>>,
                  raised |-> "none", handle |-> Devnull(""), before |-> flog]
  /\ fileOps' = fileOps + 1
  /\ UNCHANGED <<clock, treeVars, regVars, recVars, teeVars, lateVars, conVars, dirVars>>

\* flog.write(level, text).
FileWriteText(level, text) ==
  /\ fileOps < MaxFileOps
  /\ flog' = FileWrite(flog, level, text, TRUE, procid)
  /\ fileLast' = [op |-> "write", level |-> level, text |-> text,
                  raised |-> "none", handle |-> Devnull(""), before |-> flog]
  /\ fileOps' = fileOps + 1
  /\ UNCHANGED <<clock, treeVars, regVars, recVars, teeVars, lateVars, conVars, dirVars>>

\* with flog.open(filename, mode, level, exists) as f: f.write(data), the
\* whole block, ended normally or by an exception.
FileOpenFile(filename, mode, level, exists, data, etype) ==
  /\ fileOps < MaxFileOps
  /\ LET r == FileOpen(flog, filename, mode, level, exists, data, etype, procid) IN
     /\ flog' = r.log
     /\ fileLast' = [op |-> "open", level |-> level,
                     text |-> <<FileLink(r.handle.name, FileName(filename))>>,
                     raised |-> r.raised, handle |-> r.handle, before |-> flog]
  /\ fileOps' = fileOps + 1
  /\ UNCHANGED <<clock, treeVars, regVars, recVars, teeVars, lateVars, conVars, dirVars>>

\* Time passes between two operations.
FileTick ==
  /\ fileOps < MaxFileOps
  /\ clock' = clock + 1
  /\ fileLast' = [fileLast EXCEPT !.op = "tick"]
  /\ fileOps' = fileOps + 1
  /\ UNCHANGED <<flog, treeVars, regVars, recVars, teeVars, lateVars, conVars, dirVars>>

FileNext ==
  \/ \E title \in Titles, mayskip \in BOOLEAN : FilePush(title, mayskip)
  \/ FilePop
  \/ \E level \in WriteLevels, text \in FileTexts : FileWriteText(level, text)
  \/ \E etype \in {"none", "fault"} :
       FileOpenFile(<<"out", ".txt">>, "w", "user", "rename", "new", etype)
  \/ FileTick

\* ------------------------------------------------- replay, step by step ----

\* The log that is active when replay() is called: another tree-style log
\* ("other"), the recorder itself, inside its own with-block ("self"), or a
\* TeeLog over the recorder and another tree-style log ("tee").
ReplayTargets == {"other", "self", "tee"}

\* One iteration of the loop of RecordLog.replay, for the message `msg`:
\* the operation it issues on the active log reaches the recorder (`st`), the
\* other tree-style log (`other`), or both; `contexts` counts the context
\* managers replay holds, and popping from the empty list raises IndexError.
\* RecordLog.context and TeeLog.context receive the title alone, so mayskip
\* is False.
Replay_step(st, other, target, contexts, msg, p) ==
  LET cmd == msg[1]
      onRec == target \in {"self", "tee"}
      onOther == target \in {"other", "tee"} IN
  IF cmd = "entercontext"
  THEN [st |-> IF onRec THEN RecordLog_context_enter(st, msg[2], FALSE) ELSE st,
        other |-> IF onOther THEN ContextLog_push_context(other, msg[2], FALSE)
                  ELSE other,
        contexts |-> contexts + 1, raised |-> "none"]
  ELSE IF cmd = "exitcontext"
  THEN IF contexts = 0
       THEN [st |-> st, other |-> other, contexts |-> contexts,
             raised |-> "IndexError"]
       ELSE [st |-> IF onRec THEN RecordLog_context_exit(st) ELSE st,
             other |-> IF onOther THEN ContextTreeLog_pop_context(other)
                       ELSE other,
             contexts |-> contexts - 1, raised |-> "none"]
  ELSE IF cmd = "write"
  THEN [st |-> IF onRec THEN RecordLog_write(st, msg[2], msg[3], p) ELSE st,
        other |-> IF onOther THEN ContextTreeLog_write(other, msg[2], msg[3], p)
                  ELSE other,
        contexts |-> contexts, raised |-> "none"]
  ELSE LET opened == IF onRec
                     THEN RecordLog_open(st, msg[2], msg[3], msg[4], msg[5],
                                         msg[6], p)
                     ELSE st IN
       [st |-> opened,
        other |-> IF onOther /\ opened.raised = "none"
                  THEN HtmlLog_open_release(
                         HtmlLog_open_acquire(other, msg[2], msg[3], msg[5]),
                         msg[2], msg[3], msg[4], msg[5], msg[6], "none", p)
                  ELSE other,
        contexts |-> contexts, raised |-> opened.raised]

\* No replay() has been called.
RpStart ==
  rp = [state |-> "idle", target |-> "other", pos |-> 0, contexts |-> 0,
        atCall |-> <<>>, issued |-> 0, other |-> NewTreeLog]

\* The caller goes on recording; it cannot while replay() is running.
RpRecord ==
  /\ rp.state # "running"
  /\ \/ \E c \in RecContexts : RecPush(c[1], c[2])
     \/ RecPop
     \/ \E level \in WriteLevels, text \in Texts : RecWrite(level, text)

\* record.replay() is called while `target` is the active log:
\* contexts = [] and the iterator over self._messages starts at its head.
RpBegin(target) ==
  /\ recOps < MaxRecOps
  /\ rp.state # "running"
  /\ rp' = [state |-> "running", target |-> target, pos |-> 0, contexts |-> 0,
            atCall |-> rec._messages, issued |-> 0, other |-> NewTreeLog]
  /\ recLast' = [op |-> "replay", raised |-> "none", args |-> <<target>>,
                 pending |-> <<>>, messages |-> rec._messages]
  /\ recOps' = recOps + 1
  /\ UNCHANGED <<rec, old, oldCalls, issued, direct, replayed, procid, treeVars,
                 regVars, teeVars, conVars, dirVars, fileVars, actVars>>

\* The for statement of replay asks the list iterator for the next item: the
\* item at its position in self._messages as the list is now, or the end of
\* the loop when the position is at the end of the list; the body issues the
\* item's operation on the active log.
RpStep ==
  /\ rp.state = "running"
  /\ rp.pos < MaxReplaySteps
  /\ IF rp.pos >= Len(rec._messages)
     THEN /\ rp' = [rp EXCEPT !.state = "returned"]
          /\ UNCHANGED <<rec, old, oldCalls>>
     ELSE LET r == Replay_step(RecState, rp.other, rp.target, rp.contexts,
                               rec._messages[rp.pos + 1], procid) IN
          /\ RecApply(r.st)
          /\ rp' = [rp EXCEPT !.state = IF r.raised = "none" THEN "running"
                                        ELSE "raised",
                              !.pos = @ + 1,
                              !.contexts = r.contexts,
                              !.issued = IF r.raised = "IndexError" THEN @
                                         ELSE @ + 1,
                              !.other = r.other]
  /\ UNCHANGED <<issued, direct, replayed, recLast, recOps, procid, treeVars,
                 regVars, teeVars, conVars, dirVars, fileVars, actVars>>

RpNext ==
  \/ RpRecord
  \/ \E target \in ReplayTargets : RpBegin(target)
  \/ RpStep

\* ------------------------------------------ activation of a log, by class ----

\* The classes whose __enter__ the activation model follows; StdoutLog
\* inherits Log.__enter__.
ActClasses == {"StdoutLog", "RichOutputLog", "DataLog", "HtmlLog", "IndentLog"}

\* The texts written to the activated log.
ActTexts == {"x", "y"}

\* The three dependencies HtmlLog.__enter__ copies: the sha1 of the data and
\* the extension of the file.
Dependencies == <<<<"sha1", ".png">>, <<"sha1", ".css">>, <<"sha1", ".js">>>>

\* A log object of class `class`, constructed and not entered, with the
\* output directory it names (holding the files `names`) and its stream.
\* `handles` are the file objects opened so far, each with the lines written
\* through it; _file (the _logfile of an IndentLog) and _progressfile are
\* indices into them, 0 while the attribute is not set; `fds` counts the
\* open directory descriptors, `opened` every file or directory opened.
NewActLog(class, names, dir_fd) ==
  [class |-> class, dir_fd |-> dir_fd, _old_log |-> Unset,
   _exit_callbacks |-> <<>>, fds |-> 0, opened |-> 0, handles |-> <<>>,
   _file |-> 0, _progressfile |-> 0,
   dir |-> [n \in names |-> <<"old">>], stream |-> <<>>]

\* The log and the module's _current_log, as the methods below read and
\* change them; `raised` is the exception a method raised.
ActState == [log |-> act, cur |-> actCurrent, raised |-> "none"]

\* Log.__enter__: RuntimeError when the log has an _old_log; otherwise the
\* log remembers _current_log and becomes it.
Log__enter__(st) ==
  IF st.log._old_log # Unset THEN [st EXCEPT !.raised = "RuntimeError"]
  ELSE [st EXCEPT !.log._old_log = st.cur, !.cur = "self"]

\* self.enter_context(_makedirs(outdir, exist_ok=True)): the directory
\* exists afterwards; where os.open supports dir_fd a descriptor of it is
\* opened; _makedirs.__exit__ is registered.
Makedirs_enter(a) ==
  [a EXCEPT !.fds = IF a.dir_fd THEN @ + 1 ELSE @,
            !.opened = IF a.dir_fd THEN @ + 1 ELSE @,
            !._exit_callbacks = Append(@, <<"closedir">>)]

\* self._open(filename, 'w', exists): _makedirs.open on the log's
\* directory; a real handle is a new file object on a created or truncated
\* file.  `handle` is its index, 0 for a _devnull.
ActOpen(a, filename, exists) ==
  LET r == makedirs_open([n \in DOMAIN a.dir |-> ""], filename, "w", exists) IN
  IF ~r.handle.real THEN [log |-> a, handle |-> 0]
  ELSE [log |-> [a EXCEPT
                   !.dir = [n \in DOMAIN r.dir |->
                              IF n = r.handle.name THEN <<>> ELSE a.dir[n]],
                   !.handles = Append(@, [name |-> r.handle.name,
                                          closed |-> FALSE, lines |-> <<>>]),
                   !.opened = @ + 1],
        handle |-> Len(a.handles) + 1]

\* The lines `lines` become what was written through handle h.
ActSetLines(a, h, lines) ==
  [a EXCEPT !.handles[h].lines = lines,
            !.dir[a.handles[h].name] = lines]

\* DataLog.__enter__.
DataLog__enter__(st) ==
  Log__enter__([st EXCEPT !.log = Makedirs_enter(@)])

\* RichOutputLog.__enter__: the callback that clears the progress line is
\* registered first.
RichOutputLog__enter__(st) ==
  Log__enter__([st EXCEPT !.log._exit_callbacks = Append(@, <<"clear">>)])

\* HtmlLog.__enter__: the directory, the three dependencies (skipped when
\* present, written and closed otherwise), log.html under the rename policy
\* as self._file, the header, the callback that prints the footer, and then
\* Log.__enter__.
HtmlLog__enter__(st) ==
  LET RECURSIVE Copy(_, _)
      Copy(a, i) ==
        IF i > Len(Dependencies) THEN a
        ELSE LET o == ActOpen(a, Dependencies[i], "skip") IN
             Copy(IF o.handle = 0 THEN o.log
                  ELSE [ActSetLines(o.log, o.handle, <<"data">>)
                          EXCEPT !.handles[o.handle].closed = TRUE],
                  i + 1)
      copied == Copy(Makedirs_enter(st.log), 1)
      o == ActOpen(copied, <<"log", ".html">>, "rename")
      header == [ActSetLines(o.log, o.handle, HtmlHeader)
                   EXCEPT !._file = o.handle,
                          !._exit_callbacks =
                             @ \o <<<<"closefile", o.handle>>,
                                    <<"print", "</div></body></html>">>>>]
  IN Log__enter__([st EXCEPT !.log = header])

\* IndentLog.__enter__: the directory, log.html and progress.json, both
\* under the overwrite policy, and then Log.__enter__.
IndentLog__enter__(st) ==
  LET o == ActOpen(Makedirs_enter(st.log), <<"log", ".html">>, "overwrite")
      logfile == [o.log EXCEPT !._file = o.handle,
                               !._exit_callbacks = Append(@, <<"closefile", o.handle>>)]
      q == ActOpen(logfile, <<"progress", ".json">>, "overwrite")
      progressfile == [q.log EXCEPT !._progressfile = q.handle,
                                    !._exit_callbacks = Append(@, <<"closefile", q.handle>>)]
  IN Log__enter__([st EXCEPT !.log = progressfile])

\* __enter__ by class.
Act__enter__(st) ==
  CASE st.log.class = "DataLog" -> DataLog__enter__(st)
    [] st.log.class = "RichOutputLog" -> RichOutputLog__enter__(st)
    [] st.log.class = "HtmlLog" -> HtmlLog__enter__(st)
    [] st.log.class = "IndentLog" -> IndentLog__enter__(st)
    [] OTHER -> Log__enter__(st)

\* One callback of the ExitStack: a file or the directory is closed, the
\* footer is printed to self._file (ValueError when that file is closed),
\* or the progress line is cleared.
ActCallback(st, cb) ==
  LET a == st.log IN
  CASE cb[1] = "closefile" -> [st EXCEPT !.log.handles[cb[2]].closed = TRUE]
    [] cb[1] = "closedir" -> [st EXCEPT !.log.fds = IF a.dir_fd THEN @ - 1 ELSE @]
    [] cb[1] = "print" ->
         IF a.handles[a._file].closed THEN [st EXCEPT !.raised = "ValueError"]
         ELSE [st EXCEPT !.log = ActSetLines(a, a._file,
                                   Append(a.handles[a._file].lines, cb[2]))]
    [] OTHER -> [st EXCEPT !.log.stream = @ \o Printed("", "ESC[K")]

\* Log.__exit__(None, None, None): RuntimeError when the log has no
\* _old_log; _current_log is restored and _old_log deleted; then
\* ExitStack.__exit__ runs every callback, last registered first, and
\* raises what a callback raised once all have run.
Log__exit__(st) ==
  IF st.log._old_log = Unset THEN [st EXCEPT !.raised = "RuntimeError"]
  ELSE
    LET callbacks == st.log._exit_callbacks
        restored == [st EXCEPT !.cur = st.log._old_log, !.log._old_log = Unset,
                               !.log._exit_callbacks = <<>>]
        RECURSIVE Unwind(_, _)
        Unwind(t, i) == IF i = 0 THEN t ELSE Unwind(ActCallback(t, callbacks[i]), i - 1)
    IN Unwind(restored, Len(callbacks))

\* json.dump of the dict _print_progress writes, followed by '\n', for an
\* empty context list.
ProgressJson(pr) ==
  "{\"logpos\": " \o ToString(pr.logpos) \o ", \"context\": [], \"text\": \""
    \o Join("\n", pr.text) \o "\", \"level\": \"" \o pr.level \o "\"}"

\* self.write(level, text) on the rank that never forked: StdoutLog.write
\* prints to the stream, DataLog.write does nothing, ContextTreeLog.write
\* reaches _print_item, which prints to self._file (the _logfile of an
\* IndentLog, which rewrites progress.json too); printing to a closed file
\* raises ValueError.
Act_write(st, level, text) ==
  LET a == st.log IN
  IF a.class = "DataLog" THEN st
  ELSE IF a.class \in {"StdoutLog", "RichOutputLog"}
  THEN [st EXCEPT !.log.stream =
          @ \o StdoutLog_write(NewConsoleLog(a.class), level, text, 4, NoProcid).printed]
  ELSE IF a.handles[a._file].closed THEN [st EXCEPT !.raised = "ValueError"]
  ELSE
    LET s == FileWrite([NewFileLog(a.class, {}) EXCEPT
                          !.logfile = a.handles[a._file].lines],
                       level, <<text>>, TRUE, NoProcid)
        logged == ActSetLines(a, a._file, s.logfile)
    IN IF a.class = "HtmlLog" THEN [st EXCEPT !.log = logged]
       ELSE [st EXCEPT !.log = ActSetLines(logged, a._progressfile,
                                            <<ProgressJson(s.progress[1])>>)]

\* A log of class `class` has been constructed for a directory holding the
\* files `names`; the log of the module's import is the current one.
ActStart(class, names, dir_fd) ==
  /\ act = NewActLog(class, names, dir_fd)
  /\ actCurrent = "default"
  /\ actLast = [op |-> "init", result |-> "none",
                before |-> NewActLog(class, names, dir_fd), cur |-> "default"]
  /\ actOps = 0

ActApply(st, op) ==
  /\ act' = st.log
  /\ actCurrent' = st.cur
  /\ actLast' = [op |-> op, result |-> st.raised, before |-> act,
                 cur |-> actCurrent]
  /\ actOps' = actOps + 1
  /\ UNCHANGED <<procid, treeVars, regVars, recVars, teeVars, conVars, dirVars,
                 fileVars, rpVars>>

\* act.__enter__(), by a with statement or called directly; the caller
\* handles what it raises.
ActEnter ==
  /\ actOps < MaxActOps
  /\ ActApply(Act__enter__(ActState), "enter")

\* act.__exit__(None, None, None).
ActExit ==
  /\ actOps < MaxActOps
  /\ ActApply(Log__exit__(ActState), "exit")

\* act.write(level, text) inside the with-block of the log.
ActWrite(level, text) ==
  /\ actOps < MaxActOps
  /\ act._old_log # Unset
  /\ ActApply(Act_write(ActState, level, text), "write")

ActNext ==
  \/ ActEnter
  \/ ActExit
  \/ \E text \in ActTexts : ActWrite("info", text)

\* The groups declared after the file-backed logs, before any of their
\* operations.
LateStart ==
  /\ RpStart
  /\ ActStart("StdoutLog", {}, TRUE)

\* The logs outside the four first models, as the module's import and their
\* constructors leave them.
SinkStart ==
  /\ ConStart("StdoutLog", 4)
  /\ DirStart({})
  /\ FileStart("IndentLog", {})
  /\ LateStart

\* ------------------------------------------------------ specifications ----

TreeInit ==
  /\ procid \in Procids
  /\ TreeStart
  /\ RegStart
  /\ RecStart
  /\ TeeStart
  /\ SinkStart

SpecTree == TreeInit /\ [][TreeNext]_vars

RegInit ==
  /\ procid = NoProcid
  /\ TreeStart
  /\ RegStart
  /\ RecStart
  /\ TeeStart
  /\ SinkStart

SpecReg == RegInit /\ [][RegNext]_vars

RecInit ==
  /\ procid \in Procids
  /\ TreeStart
  /\ RegStart
  /\ RecStart
  /\ TeeStart
  /\ SinkStart

SpecRec == RecInit /\ [][RecNext]_vars

TeeInit ==
  /\ procid = NoProcid
  /\ TreeStart
  /\ RegStart
  /\ RecStart
  /\ TeeStart
  /\ SinkStart

SpecTee == TeeInit /\ [][TeeNext]_vars

SpecTeeFault == TeeInit /\ [][TeeFaultNext]_vars

ConInit ==
  /\ procid \in Procids
  /\ TreeStart
  /\ RegStart
  /\ RecStart
  /\ TeeStart
  /\ \E class \in {"StdoutLog", "RichOutputLog"}, v \in Verbosities :
       ConStart(class, v)
  /\ DirStart({})
  /\ FileStart("IndentLog", {})
  /\ LateStart

SpecCon == ConInit /\ [][ConNext]_vars

DirInit ==
  /\ procid = NoProcid
  /\ TreeStart
  /\ RegStart
  /\ RecStart
  /\ TeeStart
  /\ ConStart("StdoutLog", 4)
  /\ \E names \in SUBSET {FileName(f) : f \in FileNames} : DirStart(names)
  /\ FileStart("IndentLog", {})
  /\ LateStart

SpecDir == DirInit /\ [][DirNext]_vars

FileInit ==
  /\ procid \in Procids
  /\ TreeStart
  /\ RegStart
  /\ RecStart
  /\ TeeStart
  /\ ConStart("StdoutLog", 4)
  /\ DirStart({})
  /\ \E class \in {"HtmlLog", "IndentLog"}, names \in SUBSET {"out.txt"} :
       FileStart(class, names)
  /\ LateStart

SpecFile == FileInit /\ [][FileNext]_vars

RpInit ==
  /\ procid \in Procids
  /\ TreeStart
  /\ RegStart
  /\ RecStart
  /\ TeeStart
  /\ SinkStart

SpecReplay == RpInit /\ [][RpNext]_vars

ActInit ==
  /\ procid = NoProcid
  /\ TreeStart
  /\ RegStart
  /\ RecStart
  /\ TeeStart
  /\ ConStart("StdoutLog", 4)
  /\ DirStart({})
  /\ FileStart("IndentLog", {})
  /\ RpStart
  /\ \E class \in ActClasses, names \in SUBSET {"log.html"}, dir_fd \in BOOLEAN :
       ActStart(class, names, dir_fd)

SpecAct == ActInit /\ [][ActNext]_vars

\* ----------------------------------------------------------------- C1 ----

\* C1: a context that is pushed and popped with no write inside it or inside
\* a descendant is never rendered: pushing renders nothing, an open context
\* without a write lies beyond the printed prefix, and popping it renders
\* nothing.
C1_EmptyContextNotRendered ==
  /\ \A i \in 1..Len(log._context) : ~hasWrite[i] => i > log._printed_context
  /\ treeLast.op = "push" => log.out = treeLast.before.out
  /\ (treeLast.op = "pop" /\ treeLast.clean) => log.out = treeLast.before.out

\* An empty context nested in a rendered one has just been popped.
C1_Witness ==
  /\ treeLast.op = "pop"
  /\ treeLast.clean
  /\ Len(treeLast.before._context) = 2
  /\ treeLast.before._printed_context = 1

\* ----------------------------------------------------------------- C2 ----

\* C2: on the primary rank a write with n contexts of which p are printed
\* renders the push events of entries p+1..n in stack order, then the item,
\* and sets the printed prefix to n; and the pops rendered close exactly the
\* rendered contexts, innermost first, so the contexts the output leaves
\* open are the printed prefix of the stack.
C2_WriteFlushesPending ==
  /\ (treeLast.op = "write" /\ ~Truthy(procid)) =>
       LET b == treeLast.before
           n == Len(b._context)
           p == b._printed_context IN
       /\ Len(log.out) = Len(b.out) + (n - p) + 1
       /\ SubSeq(log.out, 1, Len(b.out)) = b.out
       /\ \A k \in 1..(n - p) :
            log.out[Len(b.out) + k] = <<"push", b._context[p + k]>>
       /\ log.out[Len(log.out)][1] = "item"
       /\ log._printed_context = n
  /\ OpenTitles(log.out, <<>>) = SubSeq(log._context, 1, log._printed_context)
  /\ (treeLast.op = "pop" /\ log._context = <<>>) =>
       CountKind(log.out, "pop") = CountKind(log.out, "push")

\* Three nested contexts, one write in the innermost, all three popped:
\* three pushes, the item, three pops.
C2_Witness ==
  /\ log._context = <<>>
  /\ Len(log.out) = 7
  /\ \A k \in 1..3 : log.out[k][1] = "push"
  /\ log.out[4][1] = "item"
  /\ \A k \in 5..7 : log.out[k][1] = "pop"

\* ----------------------------------------------------------------- C3 ----

\* C3: 0 <= _printed_context <= len(_context) on every rank, and the push
\* events rendered minus the pop events rendered equal _printed_context.
C3_PrintedPrefixInvariant ==
  /\ 0 <= log._printed_context
  /\ log._printed_context <= Len(log._context)
  /\ CountKind(log.out, "push") - CountKind(log.out, "pop") = log._printed_context

\* A rendered context was popped while another is still rendered and one
\* more is pending.
C3_Witness ==
  /\ log._printed_context = 1
  /\ Len(log._context) = 2
  /\ CountKind(log.out, "pop") >= 1

\* ----------------------------------------------------------------- C4 ----

\* C4: activating a log that is already active fails with an error, and
\* after the failure the active-log pointer and the log's remembered previous
\* log are what they were before the attempt.
C4_ReentryFailsCleanly ==
  (regLast.op = "enter" /\ regLast.old # Unset) =>
    /\ regLast.result = "RuntimeError"
    /\ _current_log = regLast.cur
    /\ _old_log[regLast.sink] = regLast.old

\* A log that is active but no longer the current one was entered again.
C4_Witness ==
  /\ regLast.op = "enter"
  /\ regLast.old # Unset
  /\ regLast.sink # regLast.cur
  /\ Kind(regLast.sink) # "TeeLog"
  /\ Len(scopes) >= 2

\* ----------------------------------------------------------------- C5 ----

\* C5: releasing an activation restores the active-log pointer to its value
\* from immediately before that activation, on a normal exit, on a fault and
\* on an interrupt; the released log can be activated again; and the
\* exception that was propagating still propagates.
C5_ReleaseRestores ==
  regLast.op = "exit" =>
    /\ regLast.result = "none"
    /\ _current_log = regLast.cur
    /\ _old_log[regLast.sink] = Unset
    /\ Enter(RegState, regLast.sink).raised = "none"
    /\ exc = regLast.etype

\* A TeeLog nested in another activation was released by a fault.
C5_Witness ==
  /\ regLast.op = "exit"
  /\ regLast.sink = "tee"
  /\ regLast.etype = "fault"
  /\ regLast.cur # "default"

\* ----------------------------------------------------------------- C6 ----

\* The caller made no open call on the RecordLog.
NoOpenIssued == \A i \in 1..Len(issued) : issued[i][1] # "open"

\* C6: after context pushes, writes and pops on the primary rank inside a
\* RecordLog session, replay() onto a fresh log renders the same push events,
\* items and pop events in the same order as the same calls made directly on
\* a fresh log of the same kind, and closes every context it opened once the
\* session's contexts are closed.
C6_ReplayFidelity ==
  (recLast.op = "replay" /\ ~Truthy(procid) /\ NoOpenIssued) =>
    /\ recLast.raised = "none"
    /\ replayed.out = direct.out
    /\ replayed._printed_context = direct._printed_context
    /\ rec._contexts = <<>> => replayed._context = <<>>

\* The session push A, write, push B, pop, pop was replayed: one push and
\* one pop around the item, nothing for B.
C6_Witness ==
  /\ recLast.op = "replay"
  /\ ~Truthy(procid)
  /\ issued = << <<"context", "A", FALSE>>, <<"write", "info", "x">>,
                 <<"context", "B", TRUE>>, <<"pop">>, <<"pop">> >>
  /\ replayed.out = << <<"push", "A">>, <<"item", "info", "x">>, <<"pop">> >>

\* ----------------------------------------------------------------- C7 ----

\* C7: every context push, pop, write and open made on an active RecordLog
\* reaches the wrapped log at once, in the same order and with the same
\* arguments.
C7_PassThrough == oldCalls = issued

\* ----------------------------------------------------------------- C8 ----

\* C8: RecordLog.open appends an EnterContext message for every pending
\* context, and once the handle is closed one OpenFile(filename, mode, level,
\* exists, data) message holding exactly the data written to the handle.
C8_OpenRecorded ==
  recLast.op = "open" =>
    /\ recLast.raised = "none"
    /\ rec._messages =
         recLast.messages \o EnterMessages(recLast.pending)
           \o << <<"open">> \o recLast.args >>

\* ----------------------------------------------------------------- C9 ----

\* C9: over children that start with equal context stacks, every child of a
\* TeeLog receives exactly the calls made on the TeeLog, in the same order
\* and with the same arguments (one write per write of the TeeLog), and the
\* children's context stacks are equal whenever a write arrives.
C9_TeeFanOut ==
  \A i \in 1..NChildren :
    /\ childCalls[i] = teeIssued
    /\ children[i]._context = children[1]._context
    /\ teeLast.op = "write" =>
         /\ childCalls[i] # <<>>
         /\ childCalls[i][Len(childCalls[i])] = teeIssued[Len(teeIssued)]
         /\ children[i].out # teeLast.before[i].out

\* An error was written through the TeeLog inside two contexts.
C9_Witness ==
  /\ teeLast.op = "write"
  /\ teeIssued[Len(teeIssued)] = <<"write", "error", "x">>
  /\ Len(children[NChildren]._context) = 2

\* ---------------------------------------------------------------- C10 ----

\* C10: when entering or leaving the context of one child of a TeeLog, or
\* opening or closing its file, raises, the exception reaches the caller and
\* every other child is released: its context stack is as deep as if the
\* operation had succeeded or not been made, and it holds no open handle.
C10_TeeReleasesAll ==
  /\ (teeLast.op \in {"context", "open"} /\ teeLast.fail # 0) =>
       teeLast.raised # "none"
  /\ (teeLast.op = "pop" /\ teeLast.fail # 0
        /\ teeLast.before[teeLast.fail]._printed_context
             = Len(teeLast.before[teeLast.fail]._context)) =>
       teeLast.raised # "none"
  /\ \A i \in 1..NChildren : children[i].handles = 0
  /\ \A i \in 1..NChildren :
       (teeLast.raised # "none" /\ i # teeLast.fail) =>
         /\ teeLast.op = "context" =>
              children[i]._context = teeLast.before[i]._context
         /\ teeLast.op = "pop" =>
              children[i]._context = Front(teeLast.before[i]._context)
         /\ (teeLast.op = "open" /\ teeLast.phase = "acquire") =>
              IF i < teeLast.fail
              THEN Len(children[i].files) = Len(teeLast.before[i].files) + 1
              ELSE children[i] = teeLast.before[i]
         /\ (teeLast.op = "open" /\ teeLast.phase = "release") =>
              Len(children[i].files) = Len(teeLast.before[i].files) + 1

\* The exit of the last child's context raised, and the other children, which
\* are released after it, had a context to pop.
C10_Witness ==
  /\ teeLast.op = "pop"
  /\ teeLast.raised # "none"
  /\ teeLast.fail = NChildren
  /\ Len(teeLast.before[1]._context) > 0

\* ---------------------------------------------------------------- C11 ----

\* The number of write calls equal to `call` in a sequence of write calls.
RECURSIVE CountWrites(_, _)
CountWrites(calls, call) ==
  IF calls = <<>> THEN 0
  ELSE (IF Head(calls) = call THEN 1 ELSE 0) + CountWrites(Tail(calls), call)

\* The plain logs a log writes to: itself, the children of a TeeLog, the
\* log a RecordLog wrapped when it was activated.
RECURSIVE Renderers(_, _)
Renderers(s, wrapped) ==
  IF Kind(s) = "TeeLog" THEN {TeeLogs(s)[i] : i \in 1..Len(TeeLogs(s))}
  ELSE IF Kind(s) = "RecordLog" THEN
    IF wrapped \in Sinks THEN Renderers(wrapped, Unset) ELSE {}
  ELSE {s}

\* C11: when an exception escapes the scope of an activated log, every plain
\* log it renders to receives exactly one report during the release: one
\* error-level "killed by user" and no traceback for an interrupt, one
\* post-mortem traceback for any other exception.  This is stated for every
\* kind of log, the children of a TeeLog included.
C11_OneReportPerSink ==
  (regLast.op = "exit" /\ regLast.result = "none" /\ regLast.etype # "none") =>
    \A p \in Renderers(regLast.sink, regLast.old) :
      LET received == Slice(writes[p], Len(regLast.writes[p]))
          killed == CountWrites(received, <<"error", "killed by user">>)
          traces == CountWrites(received, <<"error", "traceback">>)
      IN IF regLast.etype = "interrupt"
         THEN killed = 1 /\ traces = 0
         ELSE killed = 0 /\ traces = 1

\* ---------------------------------------------------------------- C12 ----

\* C12: a fault that escapes through nested active scopes is reported once:
\* whatever number of activation levels it has passed, no plain log has
\* rendered more than one fault report since the fault was raised, and a
\* level that is not the outermost one (scopes remain open around it)
\* reports nothing.
C12_FaultLoggedOnce ==
  (regLast.op = "exit" /\ regLast.result = "none" /\ regLast.etype = "fault") =>
    \A p \in Sinks :
      LET sinceRaise == Slice(writes[p], Len(regLast.atRaise[p]))
          reports == CountWrites(sinceRaise, <<"error", "traceback">>)
      IN /\ reports <= 1
         /\ scopes # <<>> => reports = 0

\* ---------------------------------------------------------------- C13 ----

\* The place of a level in the order error > warning > user > info > debug,
\* 1 for the highest.
LevelRank(level) == CHOOSE i \in 1..Len(LEVELS) : LEVELS[i] = level

\* C13: on a console log (StdoutLog or RichOutputLog) a write at level L is
\* printed if and only if L is at or above the verbosity threshold
\* LEVELS[verbose]; with the threshold at "user" (verbose = 3) error, warning
\* and user are printed, info and debug are not.
C13_VerbosityThreshold ==
  conLast.op = "write" =>
    /\ conLast.printed # <<>> <=> LevelRank(conLast.level) <= verbose
    /\ verbose = 3 =>
         (conLast.printed # <<>> <=> conLast.level \in {"error", "warning", "user"})

\* A write at level user was printed by a RichOutputLog whose threshold is
\* "user".
C13_Witness ==
  /\ conLast.op = "write"
  /\ console.class = "RichOutputLog"
  /\ verbose = 3
  /\ LEVELS[verbose] = "user"
  /\ conLast.level = "user"
  /\ Len(conLast.printed) = 1

\* ---------------------------------------------------------------- C14 ----

\* C14: an open with policy rename uses the requested name unchanged when it
\* is not in the directory; otherwise it creates name-n.ext for the smallest
\* positive n for which name-n.ext is not in the directory.  No file that
\* was in the directory is truncated or overwritten; with out.txt in the
\* directory and neither out-1.txt nor out-2.txt, two opens of out.txt
\* create out-1.txt, then out-2.txt.
C14_RenamePolicy ==
  (dirLast.op = "open" /\ dirLast.exists = "rename" /\ dirLast.raised = "none") =>
    LET name == FileName(dirLast.filename)
        listdir == DOMAIN dirLast.before
        created == dirLast.handle.name
    IN /\ HandleBool(dirLast.handle)
       /\ name \notin listdir => created = name
       /\ name \in listdir =>
            \E n \in 1..(Cardinality(listdir) + 1) :
              /\ created = Renamed(dirLast.filename, n)
              /\ \A m \in 1..(n - 1) : Renamed(dirLast.filename, m) \in listdir
       /\ created \notin listdir
       /\ DOMAIN dir = listdir \cup {created}
       /\ dir[created] = dirLast.data
       /\ \A f \in listdir : dir[f] = dirLast.before[f]
       /\ (name = "out.txt" /\ listdir = {"out.txt"}) => created = "out-1.txt"
       /\ (name = "out.txt" /\ listdir = {"out.txt", "out-1.txt"}) =>
            created = "out-2.txt"

\* out.txt was opened with policy rename a second time: the first open
\* created out-1.txt, this one created out-2.txt, and out.txt is as it was.
C14_Witness ==
  /\ dirLast.op = "open"
  /\ dirLast.exists = "rename"
  /\ dirLast.filename = <<"out", ".txt">>
  /\ dirLast.before = [n \in {"out.txt", "out-1.txt"} |->
                         IF n = "out.txt" THEN "old" ELSE "new"]
  /\ dirLast.handle.name = "out-2.txt"
  /\ dir["out.txt"] = "old"
  /\ dir["out-2.txt"] = "new"

\* ---------------------------------------------------------------- C15 ----

\* C15: an open with policy skip of a name that is in the directory returns
\* a false handle, what is written to it is dropped and the directory, the
\* contents of that file included, is unchanged; for a name that is not in
\* the directory the result is that of policy overwrite: a true handle on a
\* new file of that name.
C15_SkipPolicy ==
  (dirLast.op = "open" /\ dirLast.exists = "skip" /\ dirLast.raised = "none") =>
    LET name == FileName(dirLast.filename)
        overwrite == makedirs_open(dirLast.before, dirLast.filename,
                                   dirLast.mode, "overwrite")
    IN IF name \in DOMAIN dirLast.before
       THEN /\ ~HandleBool(dirLast.handle)
            /\ dir = dirLast.before
       ELSE /\ HandleBool(dirLast.handle)
            /\ dirLast.handle = overwrite.handle
            /\ dirLast.handle.name = name
            /\ DOMAIN dir = DOMAIN dirLast.before \cup {name}
            /\ dir[name] = dirLast.data
            /\ \A f \in DOMAIN dirLast.before : dir[f] = dirLast.before[f]

\* out.txt, which was in the directory, was opened with policy skip and
\* data was written to the handle: the handle is false and out.txt holds
\* what it held.
C15_Witness ==
  /\ dirLast.op = "open"
  /\ dirLast.exists = "skip"
  /\ dirLast.raised = "none"
  /\ dirLast.filename = <<"out", ".txt">>
  /\ "out.txt" \in DOMAIN dirLast.before
  /\ dirLast.data = "new"
  /\ ~HandleBool(dirLast.handle)
  /\ dir["out.txt"] = "old"

\* ---------------------------------------------------------------- C16 ----

\* C16: an open with a mode other than 'w' and 'wb', or with an exists policy
\* other than overwrite, rename and skip, raises ValueError before any file
\* is created, truncated or renamed: the directory is unchanged.
C16_InvalidArgument ==
  (dirLast.op = "open" /\
   (dirLast.mode \notin {"w", "wb"} \/
    dirLast.exists \notin {"overwrite", "rename", "skip"})) =>
    /\ dirLast.raised = "ValueError"
    /\ dir = dirLast.before

\* out.txt, which was in the directory, was opened with mode 'w' and the
\* policy append: ValueError, and out.txt holds what it held.
C16_Witness ==
  /\ dirLast.op = "open"
  /\ dirLast.mode = "w"
  /\ dirLast.exists = "append"
  /\ dirLast.filename = <<"out", ".txt">>
  /\ dirLast.raised = "ValueError"
  /\ "out.txt" \in DOMAIN dir
  /\ dir["out.txt"] = "old"

\* ---------------------------------------------------------------- C17 ----

\* C17 as stated: on a RichOutputLog on a worker rank every write and every
\* context push prints nothing.
C17_WorkerSilent ==
  (console.class = "RichOutputLog" /\ Truthy(procid) /\
   conLast.op \in {"write", "push"}) =>
    conLast.printed = <<>>

\* C17, amended: on a RichOutputLog on a worker rank a context push prints
\* nothing; a write is not suppressed: it prints, under the same verbosity
\* threshold as on the primary rank, one line whose text is the written text
\* tagged with the rank, "[rank] text".
C17_WorkerWritesTagged ==
  (console.class = "RichOutputLog" /\ Truthy(procid)) =>
    /\ conLast.op = "push" => conLast.printed = <<>>
    /\ conLast.op = "write" =>
         IF LevelRank(conLast.level) <= verbose
         THEN conLast.printed =
                Printed(RichOutputLog_mkstr(conLast.before.log, conLast.level,
                          "[" \o ToString(procid) \o "] " \o conLast.text).string,
                        "\n")
         ELSE conLast.printed = <<>>

\* On rank 1 an error was written outside any context: one line, tagged.
C17_Witness ==
  /\ console.class = "RichOutputLog"
  /\ procid = 1
  /\ conLast.op = "write"
  /\ conLast.level = "error"
  /\ conLast.before.log._context = <<>>
  /\ conLast.printed = Printed("ESC[KESC[1;30mESC[1;31m[1] xESC[0m", "\n")

\* ---------------------------------------------------------------- C18 ----

\* C18 as stated: on a RichOutputLog on the primary rank a context push with
\* mayskip repaints the progress line only if the time since the last
\* repaint has reached the interval, whatever pushes, pops and writes came
\* between; a push without mayskip always repaints.
C18_ThrottledByTimeOnly ==
  (console.class = "RichOutputLog" /\ ~Truthy(procid) /\ conLast.op = "push") =>
    /\ (conLast.mayskip /\ conLast.printed # <<>> /\ conLast.before.repaintedAt # -1) =>
         conLast.at - conLast.before.repaintedAt >= ProgressInterval
    /\ ~conLast.mayskip => conLast.printed # <<>>

\* C18, amended: on a RichOutputLog on the primary rank a context push with
\* mayskip repaints the progress line if and only if the progress line was
\* never painted, or a message line was printed after the last repaint, or
\* the time since the last repaint has reached the interval; a push without
\* mayskip always repaints.  A repaint is one line: the context trail, ended
\* by a carriage return.
C18_ThrottledUnlessWritten ==
  (console.class = "RichOutputLog" /\ ~Truthy(procid) /\ conLast.op = "push") =>
    LET due == \/ conLast.before.repaintedAt = -1
               \/ conLast.before.writtenSince
               \/ conLast.at - conLast.before.repaintedAt >= ProgressInterval
        line == Printed(RichOutputLog_mkstr(console, "progress", NoText).string, "\r")
    IN /\ conLast.mayskip => (conLast.printed # <<>> <=> due)
       /\ ~conLast.mayskip => conLast.printed # <<>>
       /\ conLast.printed # <<>> => conLast.printed = line

\* A push with mayskip repainted the progress line at the very time of the
\* last repaint, a message having been printed in between.
C18_Witness ==
  /\ console.class = "RichOutputLog"
  /\ ~Truthy(procid)
  /\ conLast.op = "push"
  /\ conLast.mayskip
  /\ conLast.before.repaintedAt = conLast.at
  /\ conLast.before.writtenSince
  /\ Len(conLast.printed) = 1
  /\ conLast.printed[1].end = "\r"

\* ---------------------------------------------------------------- C19 ----

\* C19: on an IndentLog, after every rendered item (a write on the primary
\* rank, the report of a file that was closed normally) progress.json holds
\* exactly one JSON object: its context is the context stack, its text the
\* text of the item, its level the level of the item, its logpos the
\* position of log.html after the item; progress.json never holds more than
\* one object.
C19_ProgressAfterItem ==
  /\ Len(flog.progress) <= 1
  /\ (/\ flog.class = "IndentLog"
      /\ \/ fileLast.op = "write" /\ ~Truthy(procid)
         \/ fileLast.op = "open" /\ fileLast.raised = "none") =>
       flog.progress = <<[logpos |-> Tell(flog.logfile),
                          context |-> flog._context,
                          text |-> fileLast.text,
                          level |-> fileLast.level]>>

\* ---------------------------------------------------------------- C20 ----

\* C20: on an HtmlLog and on an IndentLog a file whose handle is closed
\* normally is reported as exactly one item at the given level, rendered as
\* a write is: on the primary rank every pending context is rendered as a
\* push first, so that the item is at a rendered depth equal to the length
\* of the context stack; on a worker rank nothing is rendered.
C20_OpenReportedLikeWrite ==
  (fileLast.op = "open" /\ fileLast.raised = "none") =>
    LET before == fileLast.before
        pending == Slice(before._context, before._printed_context)
    IN IF Truthy(procid)
       THEN flog.out = before.out /\ flog.logfile = before.logfile
       ELSE /\ flog.out = before.out \o PushEvents(pending)
                            \o <<<<"item", fileLast.level, fileLast.text>>>>
            /\ Len(OpenTitles(Front(flog.out), <<>>)) = Len(flog._context)
            /\ flog._printed_context = Len(flog._context)

\* ---------------------------------------------------------------- C21 ----

\* C21: in every state of a RecordLog _appended_contexts <= len(_contexts);
\* the messages are well nested: no prefix of _messages holds more
\* 'exitcontext' than 'entercontext' messages, and the 'entercontext'
\* messages outnumber the 'exitcontext' messages by _appended_contexts; once
\* every context of the session is closed the two counts are equal, so that
\* replay() never pops an empty list of contexts and leaves the context
\* stack of the log it replays to as it found it.
C21_RecordLogWellNested ==
  LET messages == rec._messages
      Enters(k) == CountKind(SubSeq(messages, 1, k), "entercontext")
      Exits(k) == CountKind(SubSeq(messages, 1, k), "exitcontext")
      all == Len(messages)
  IN /\ rec._appended_contexts <= Len(rec._contexts)
     /\ \A k \in 0..all : Exits(k) <= Enters(k)
     /\ Enters(all) - Exits(all) = rec._appended_contexts
     /\ rec._contexts = <<>> => Enters(all) = Exits(all)
     /\ recLast.op = "replay" =>
          /\ recLast.raised = "none"
          /\ rec._contexts = <<>> => replayed._context = <<>>

\* A session of two nested contexts with a write in the outer one only
\* was closed and replayed: one 'entercontext', one 'exitcontext', the
\* inner context dropped, and the replay left no context open.
C21_Witness ==
  /\ recLast.op = "replay"
  /\ rec._contexts = <<>>
  /\ rec._appended_contexts = 0
  /\ rec._messages = << <<"entercontext", "A">>, <<"write", "info", "x">>,
                        <<"exitcontext">> >>
  /\ issued = << <<"context", "A", FALSE>>, <<"write", "info", "x">>,
                 <<"context", "B", TRUE>>, <<"pop">>, <<"pop">> >>
  /\ replayed._context = <<>>
  /\ Len(replayed.out) = 3

\* ---------------------------------------------------------------- C22 ----

\* C22: replay() terminates after issuing exactly one operation per buffered
\* message and leaves the recorder's message list unchanged, whichever log is
\* active at the call, the recorder itself and a log forwarding to it
\* included: while replay() runs it has issued no more operations than there
\* were messages at the call and _messages is what it was at the call, and
\* once it has returned it has issued one operation per message of the call.
C22_ReplayOnePerMessage ==
  /\ rp.state = "running" =>
       /\ rp.issued <= Len(rp.atCall)
       /\ rec._messages = rp.atCall
  /\ rp.state = "returned" => rp.issued = Len(rp.atCall)

\* ---------------------------------------------------------------- C23 ----

\* C23: a failed re-activation of an already-active log has no effect on
\* that log, whatever its class: the __enter__ that raised RuntimeError has
\* opened no file or directory, written nothing to the directory or the
\* stream, registered no exit callback, and left the log's current output
\* file and _current_log as they were.
C23_RejectedEnterNoEffect ==
  (actLast.op = "enter" /\ actLast.result = "RuntimeError") =>
    /\ act.opened = actLast.before.opened
    /\ act.fds = actLast.before.fds
    /\ act.dir = actLast.before.dir
    /\ act.stream = actLast.before.stream
    /\ act._exit_callbacks = actLast.before._exit_callbacks
    /\ act._file = actLast.before._file
    /\ act.handles = actLast.before.handles
    /\ actCurrent = actLast.cur

\* ---------------------------------------------------------------- C24 ----

\* C24: when activating a TeeLog fails because one of its children cannot
\* be activated, then after the failure _current_log is what it was before
\* the attempt and no child that the attempt activated remains activated:
\* every child that had no _old_log before has none after.
C24_FailedTeeEnterRestores ==
  (regLast.op = "enter" /\ Kind(regLast.sink) = "TeeLog"
     /\ regLast.result = "RuntimeError") =>
    /\ _current_log = regLast.cur
    /\ \A i \in 1..Len(TeeLogs(regLast.sink)) :
         LET child == TeeLogs(regLast.sink)[i] IN
         regLast.olds[child] = Unset => _old_log[child] = Unset

====
